---- MODULE Spec2Model ----
(***************************************************************************)
(* Model of the tokio-scgi codecs: the server-side decoder state machine   *)
(* (src/src/server.rs), the client-side encoder (src/src/client.rs) and    *)
(* the connection loop that appends bytes to a buffer and calls decode.    *)
(*                                                                         *)
(* Bytes are their numeric values.  Strings are byte sequences that passed *)
(* String::from_utf8.  The two size limits of server.rs are scaled down so *)
(* that both sides of each limit are reachable within the input bounds.    *)
(***************************************************************************)
EXTENDS Integers, Sequences, FiniteSets, TLC

\* ---------------------------------------------------------------- bytes
NUL == 0
SPACE == 32
PLUS == 43
COMMA == 44
ZERO == 48
THREE == 51
NINE == 57
COLON == 58
LETTER_A == 97
LETTER_B == 98
LETTER_C == 99
BAD_BYTE == 255

\* server.rs MAX_HEADER_STRING_BYTES (32 * 1024 in the source, scaled).
MAX_HEADER_STRING_BYTES == 1
\* server.rs MAX_HEADER_BYTES (256 * 1024 in the source, scaled).
MAX_HEADER_BYTES == 7
\* usize arithmetic is modulo 2^USIZE_BITS (64 in the source, scaled).
USIZE_BITS == 16
USIZE_MOD == 2 ^ USIZE_BITS

\* ---------------------------------------------------------------- bounds
\* Total number of bytes a hostile peer sends on one connection.
MaxInput == 6
\* Largest chunk the transport appends before decode is called.
MaxChunk == 6
\* Longest header list of an encoded request.
MaxHeaders == 2
\* Longest body of an encoded request.
MaxBody == 2
\* The longest input of the peer that sends malformed size prefixes.
MaxPrefixInput == 4
\* Number of encode calls made on one client codec.
MaxEncodes == 2
\* Number of polls made on one gate.
MaxGatePolls == 4
\* Number of calls made on the connections of one server, all together.
MaxConnCalls == 3
\* Total number of bytes of the peer whose chunks end in the middle of a scan.
MaxScanInput == 5
\* Total number of response bytes a server sends to a client connection.
MaxResponse == 3
\* Number of decode calls made on one client codec.
MaxClientDecodes == 3
\* Total number of bytes the peer of one server session sends.
MaxSessionInput == 4
\* Number of polls made on the gate of one server session.
MaxSessionPolls == 4
\* Number of messages given to one sample handler.
MaxHandlerCalls == 3
\* Longest body carried by one message given to the handler.
MaxHandlerBody == 2
\* Total number of bytes of the peer whose decode calls are followed one
\* loop iteration at a time.
MaxLoopInput == 6

\* ---------------------------------------------------------------- helpers
\* The byte sequences over S of length lo..hi.
SeqsOver(S, lo, hi) == UNION {[1..n -> S] : n \in lo..hi}

\* buf[from..].iter().position(|b| *b == byte): the 0-based offset, relative
\* to from, of the first occurrence of byte at or after the 0-based index
\* from; -1 for None.
position(b, from, byte) ==
    LET hits == {i \in (from + 1)..Len(b) : b[i] = byte}
    IN IF hits = {} THEN -1
       ELSE (CHOOSE i \in hits : \A j \in hits : i <= j) - (from + 1)

\* BytesMut::split_to(n): the first n bytes, and what stays in the buffer.
split_head(b, n) == SubSeq(b, 1, n)
split_rest(b, n) == SubSeq(b, n + 1, Len(b))

\* String::from_utf8 succeeds.  The alphabets of this model hold ASCII bytes
\* and BAD_BYTE (0xFF), which no UTF-8 string contains.
from_utf8_ok(s) == \A i \in 1..Len(s) : s[i] < 128

\* str::parse::<usize>: -1 for Err.  An optional leading '+', then one or
\* more decimal digits, the value below 2^USIZE_BITS.
RECURSIVE digits_value(_, _)
digits_value(s, acc) ==
    IF Len(s) = 0 THEN acc
    ELSE IF s[1] < ZERO \/ s[1] > NINE THEN -1
    ELSE LET next == acc * 10 + (s[1] - ZERO)
         IN IF next >= USIZE_MOD THEN -1 ELSE digits_value(Tail(s), next)

parse_usize(s) ==
    IF Len(s) = 0 THEN -1
    ELSE IF s[1] = PLUS THEN (IF Len(s) = 1 THEN -1 ELSE digits_value(Tail(s), 0))
    ELSE digits_value(s, 0)

\* usize::to_string: the decimal digits of n, no leading zero, "0" for 0.
RECURSIVE to_string(_)
to_string(n) ==
    IF n < 10 THEN <<ZERO + n>>
    ELSE to_string(n \div 10) \o <<ZERO + (n % 10)>>

\* ---------------------------------------------------------------- state
VARIABLES
    \* server::SCGICodec fields
    decoder_state, header_remaining, header_key, headers, next_search_index,
    \* the connection's read buffer, owned by the framing adapter
    buf,
    \* build profile: TRUE when integer overflow checks are compiled in
    \* (debug), FALSE when usize arithmetic wraps (release)
    overflow_checks,
    \* the client side: the request to encode, what encode returned, the
    \* bytes it wrote that the transport has not delivered yet, and the
    \* number of chunks the transport has delivered
    request, enc_result, wire, deliveries,
    \* one entry per encode call made on the client codec: the kind of the
    \* message and what the call returned
    enc_log,
    \* observation of the run: every byte appended to buf so far, the result
    \* of the latest decode call, and what the calls returned in aggregate
    fed, result, nreq, got_headers, got_content, errored, panicked,
    \* accounting of the header block: the length the size prefix declared
    \* and the key/value bytes (with their NULs) removed from buf since then
    hdr_declared, hdr_consumed,
    \* AbortableStream fields: the stop flag and the kind of err_handler
    \* the gate was built with
    gate_stop, gate_handler,
    \* observation of the gate: what the latest poll returned, the number
    \* of polls made, the payloads yielded so far, and what the wrapped
    \* stream returned each time it was polled
    gate_result, gate_polls, gate_out, src_hist,
    \* the connections of a server that serves several at once: for each,
    \* its codec, its buffer and its gate, with the calls made on it and
    \* what they returned
    conns,
    \* one decode call of the server codec taken an iteration of the loop of
    \* consume_headers at a time: the codec, the buffer, where the call is,
    \* and what it has done so far
    call,
    \* the read buffer of a client connection and what each call of the
    \* client codec's decode returned
    client_rx,
    \* examples/server.rs SampleHandler fields, the messages it was given
    \* and what it returned; the session serve() builds around it
    sample_handler, session,
    \* lib.rs SCGICodec::encoder_state
    encoder_state

codec_vars == <<decoder_state, header_remaining, header_key, headers, next_search_index>>
client_vars == <<request, enc_result, wire, deliveries, enc_log>>
obs_vars == <<fed, result, nreq, got_headers, got_content, errored, panicked,
              hdr_declared, hdr_consumed>>
gate_vars == <<gate_stop, gate_handler, gate_result, gate_polls, gate_out, src_hist>>
ext_vars == <<call, client_rx, sample_handler, session, encoder_state>>
vars == <<codec_vars, buf, overflow_checks, client_vars, obs_vars, gate_vars, conns,
          ext_vars>>

CodecStates == {"HeaderSize", "HeaderKey", "HeaderValue", "ContentSeparator", "Content"}

\* ---------------------------------------------------------------- results
\* Ok(None)
NoMessage == [kind |-> "None", headers |-> <<>>, body |-> <<>>, err |-> "none",
              errkind |-> "none"]
\* Ok(Some(SCGIRequest::Request(headers, body)))
RequestMsg(h, b) == [kind |-> "Request", headers |-> h, body |-> b, err |-> "none",
                     errkind |-> "none"]
\* Ok(Some(SCGIRequest::BodyFragment(bytes)))
BodyFragmentMsg(b) == [kind |-> "BodyFragment", headers |-> <<>>, body |-> b, err |-> "none",
                       errkind |-> "none"]
\* An error macro that builds errors of the kind the encoder uses.
io_err_invalid_input(why) == [kind |-> "Err", headers |-> <<>>, body |-> <<>>, err |-> why,
                              errkind |-> "InvalidInput"]
\* io_err!: Err(io::Error::new(io::ErrorKind::InvalidData, ..))
io_err(why) == [kind |-> "Err", headers |-> <<>>, body |-> <<>>, err |-> why,
                errkind |-> "InvalidData"]
\* the call unwinds with a panic
Panicked(why) == [kind |-> "Panic", headers |-> <<>>, body |-> <<>>, err |-> why,
                  errkind |-> "none"]

\* What one call leaves behind: the codec, the buffer and the returned value.
Outcome(c, b, r) == [c |-> c, buf |-> b, res |-> r]

\* SCGICodec::new()
new_codec == [decoder_state |-> "HeaderSize", header_remaining |-> 0,
              header_key |-> <<>>, headers |-> <<>>, next_search_index |-> 0,
              hdr_declared |-> 0, hdr_consumed |-> 0]

\* ---------------------------------------------------------------- decoder
\* A size parser without the leading-zero test.
consume_header_size_lenient(bytes_with_colon) ==
    IF Len(bytes_with_colon) = 1 THEN -1
    ELSE LET size_str == SubSeq(bytes_with_colon, 1, Len(bytes_with_colon) - 1)
         IN IF ~from_utf8_ok(size_str) THEN -1 ELSE parse_usize(size_str)

\* consume_header_size: the declared length, or -1 for Err.
consume_header_size(bytes_with_colon) ==
    IF Len(bytes_with_colon) = 1 THEN -1
    ELSE IF Len(bytes_with_colon) > 2 /\ bytes_with_colon[1] = ZERO THEN -1
    ELSE LET size_str == SubSeq(bytes_with_colon, 1, Len(bytes_with_colon) - 1)
         IN IF ~from_utf8_ok(size_str) THEN -1 ELSE parse_usize(size_str)

\* consume_header_string: the bytes before the trailing NUL; Err when they
\* are not UTF-8.
consume_header_string_ok(bytes_with_nul) ==
    from_utf8_ok(SubSeq(bytes_with_nul, 1, Len(bytes_with_nul) - 1))
consume_header_string(bytes_with_nul) ==
    SubSeq(bytes_with_nul, 1, Len(bytes_with_nul) - 1)

\* self.header_remaining -= bytes_with_nul.len() on usize, when it does not
\* panic: the difference modulo 2^USIZE_BITS.
usize_sub(a, n) == (a - n + USIZE_MOD) % USIZE_MOD

\* A cursor that skips one byte too many.
scan_deferred_off_by_one(c, b) == [c EXCEPT !.next_search_index = Len(b) + 1]

\* A deferred scan that takes the scanned bytes off the header budget.
scan_deferred_charges(c, b) ==
    [c EXCEPT !.next_search_index = Len(b),
              !.header_remaining = IF c.header_remaining > Len(b)
                                   THEN c.header_remaining - Len(b) ELSE 0]

\* self.next_search_index = buf.len(): the delimiter is not in the buffer
\* yet, the next search starts where this one ended.
scan_deferred(c, b) == [c EXCEPT !.next_search_index = Len(b)]

\* A separator arm that does not enter the Content state.
content_separator_stay(c, b) ==
    IF Len(b) = 0 THEN Outcome(c, b, NoMessage)
    ELSE IF b[1] = COMMA
         THEN Outcome([c EXCEPT !.next_search_index = 0, !.headers = <<>>],
                      <<>>,
                      RequestMsg(c.headers, split_rest(b, 1)))
         ELSE Outcome(c, b, io_err("Missing ',' separating headers from content"))

\* A separator arm that cuts one byte too many before the body.
content_separator_off_by_one(c, b) ==
    IF Len(b) = 0 THEN Outcome(c, b, NoMessage)
    ELSE IF b[1] = COMMA
         THEN Outcome([c EXCEPT !.next_search_index = 0,
                                !.decoder_state = "Content",
                                !.headers = <<>>],
                      <<>>,
                      RequestMsg(c.headers, split_rest(b, 2)))
         ELSE Outcome(c, b, io_err("Missing ',' separating headers from content"))

\* A separator arm that drops the byte it refuses.
content_separator_skip(c, b) ==
    IF Len(b) = 0 THEN Outcome(c, b, NoMessage)
    ELSE IF b[1] = COMMA
         THEN Outcome([c EXCEPT !.next_search_index = 0,
                                !.decoder_state = "Content",
                                !.headers = <<>>],
                      <<>>,
                      RequestMsg(c.headers, split_rest(b, 1)))
         ELSE Outcome(c, split_rest(b, 1),
                      io_err("Missing ',' separating headers from content"))

\* A separator arm that waits for a body byte before it emits the Request.
content_separator_needs_body(c, b) ==
    IF Len(b) = 0 THEN Outcome(c, b, NoMessage)
    ELSE IF b[1] = COMMA
         THEN IF Len(b) = 1 THEN Outcome(c, b, NoMessage)
              ELSE Outcome([c EXCEPT !.next_search_index = 0,
                                     !.decoder_state = "Content",
                                     !.headers = <<>>],
                           <<>>,
                           RequestMsg(c.headers, split_rest(b, 1)))
         ELSE Outcome(c, b, io_err("Missing ',' separating headers from content"))

\* The ContentSeparator arm of consume_headers.
content_separator(c, b) ==
    IF Len(b) = 0 THEN Outcome(c, b, NoMessage)
    ELSE IF b[1] = COMMA
         THEN Outcome([c EXCEPT !.next_search_index = 0,
                                !.decoder_state = "Content",
                                !.headers = <<>>],
                      <<>>,
                      RequestMsg(c.headers, split_rest(b, 1)))
         ELSE Outcome(c, b, io_err("Missing ',' separating headers from content"))

\* A decoder that leaves the headers after the first pair, whatever budget
\* remains.
header_string_stored_one_pair(c, bytes_with_nul) ==
    IF c.decoder_state = "HeaderKey"
    THEN [c EXCEPT !.header_key = consume_header_string(bytes_with_nul),
                   !.decoder_state = "HeaderValue"]
    ELSE [c EXCEPT !.headers = Append(c.headers,
                                      <<c.header_key, consume_header_string(bytes_with_nul)>>),
                   !.header_key = <<>>,
                   !.decoder_state = "ContentSeparator"]

\* A decoder that puts each new pair in front of the earlier ones.
header_string_stored_prepend(c, bytes_with_nul) ==
    IF c.decoder_state = "HeaderKey"
    THEN [c EXCEPT !.header_key = consume_header_string(bytes_with_nul),
                   !.decoder_state = "HeaderValue"]
    ELSE [c EXCEPT !.headers = <<<<c.header_key, consume_header_string(bytes_with_nul)>>>>
                               \o c.headers,
                   !.header_key = <<>>,
                   !.decoder_state = IF c.header_remaining > 0
                                     THEN "HeaderKey" ELSE "ContentSeparator"]

\* A decoder that keeps the key after pushing its pair.
header_string_stored_keeps_key(c, bytes_with_nul) ==
    IF c.decoder_state = "HeaderKey"
    THEN [c EXCEPT !.header_key = consume_header_string(bytes_with_nul),
                   !.decoder_state = "HeaderValue"]
    ELSE [c EXCEPT !.headers = Append(c.headers,
                                      <<c.header_key, consume_header_string(bytes_with_nul)>>),
                   !.decoder_state = IF c.header_remaining > 0
                                     THEN "HeaderKey" ELSE "ContentSeparator"]

\* The codec after a header string and its NUL were cut from the buffer
\* and parsed: the key is stored, or the (key, value) pair is pushed and the
\* next state chosen from the remaining budget.
header_string_stored(c, bytes_with_nul) ==
    IF c.decoder_state = "HeaderKey"
    THEN [c EXCEPT !.header_key = consume_header_string(bytes_with_nul),
                   !.decoder_state = "HeaderValue"]
    ELSE [c EXCEPT !.headers = Append(c.headers,
                                      <<c.header_key, consume_header_string(bytes_with_nul)>>),
                   !.header_key = <<>>,
                   !.decoder_state = IF c.header_remaining > 0
                                     THEN "HeaderKey" ELSE "ContentSeparator"]

\* SCGICodec::consume_headers: the loop over the header states.
RECURSIVE consume_headers(_, _, _)
consume_headers(c, b, checks) ==
    IF c.decoder_state = "ContentSeparator" THEN content_separator(c, b)
    ELSE IF c.decoder_state \in {"HeaderKey", "HeaderValue"} THEN
        IF c.next_search_index > Len(b)
        THEN Outcome(c, b, Panicked("slice index starts out of range"))
        ELSE LET end_offset == position(b, c.next_search_index, NUL) IN
            IF end_offset # -1
            THEN LET n == c.next_search_index + end_offset + 1
                     bytes_with_nul == split_head(b, n)
                     rest == split_rest(b, n)
                     c1 == [c EXCEPT !.next_search_index = 0]
                 IN IF checks /\ Len(bytes_with_nul) > c.header_remaining
                    THEN Outcome(c1, rest, Panicked("attempt to subtract with overflow"))
                    ELSE LET c2 == [c1 EXCEPT
                                      !.header_remaining =
                                          usize_sub(c.header_remaining, Len(bytes_with_nul)),
                                      !.hdr_consumed = c.hdr_consumed + Len(bytes_with_nul)]
                         IN IF ~consume_header_string_ok(bytes_with_nul)
                            THEN Outcome(c2, rest,
                                         io_err(IF c.decoder_state = "HeaderKey"
                                                THEN "Failed to parse header key"
                                                ELSE "Failed to parse value for header"))
                            ELSE consume_headers(header_string_stored(c2, bytes_with_nul),
                                                 rest, checks)
            ELSE LET c1 == scan_deferred(c, b)
                 IN IF c1.next_search_index > MAX_HEADER_STRING_BYTES
                    THEN Outcome(c1, b, io_err("Header key or value size exceeds maximum"))
                    ELSE Outcome(c1, b, NoMessage)
    ELSE Outcome(c, b, Panicked("Unexpected state"))

\* A limit test that also refuses a declared length equal to the maximum.
exceeds_max_header_bytes_inclusive(size) == size >= MAX_HEADER_BYTES

\* self.header_remaining > MAX_HEADER_BYTES
exceeds_max_header_bytes(size) == size > MAX_HEADER_BYTES

\* The HeaderSize arm of decode.
header_size(c, b, checks) ==
    IF c.next_search_index > Len(b)
    THEN Outcome(c, b, Panicked("slice index starts out of range"))
    ELSE LET end_offset == position(b, c.next_search_index, COLON) IN
        IF end_offset # -1
        THEN LET n == c.next_search_index + end_offset + 1
                 size_with_colon == split_head(b, n)
                 rest == split_rest(b, n)
                 c1 == [c EXCEPT !.next_search_index = 0]
                 size == consume_header_size(size_with_colon)
             IN IF size = -1
                THEN Outcome(c1, rest, io_err("Header size is malformed"))
                ELSE LET c2 == [c1 EXCEPT !.header_remaining = size,
                                          !.hdr_declared = size,
                                          !.hdr_consumed = 0]
                     IN IF exceeds_max_header_bytes(c2.header_remaining)
                        THEN Outcome(c2, rest, io_err("Header size exceeds maximum"))
                        ELSE IF c2.header_remaining > 0
                        THEN consume_headers([c2 EXCEPT !.decoder_state = "HeaderKey"],
                                             rest, checks)
                        ELSE consume_headers([c2 EXCEPT !.decoder_state = "ContentSeparator"],
                                             rest, checks)
        ELSE Outcome(scan_deferred(c, b), b, NoMessage)

\* A Content arm that forwards the buffer without looking at its length.
content_no_empty_check(c, b) == Outcome(c, <<>>, BodyFragmentMsg(b))

\* A Content arm that goes back to the size prefix after a fragment.
content_rearm(c, b) ==
    IF Len(b) = 0 THEN Outcome(c, b, NoMessage)
    ELSE Outcome([c EXCEPT !.decoder_state = "HeaderSize"], <<>>, BodyFragmentMsg(b))

\* The Content arm of decode.
content(c, b) ==
    IF Len(b) = 0 THEN Outcome(c, b, NoMessage)
    ELSE Outcome(c, <<>>, BodyFragmentMsg(b))

\* <server::SCGICodec as Decoder>::decode
decode(c, b, checks) ==
    IF c.decoder_state = "HeaderSize" THEN header_size(c, b, checks)
    ELSE IF c.decoder_state = "Content" THEN content(c, b)
    ELSE consume_headers(c, b, checks)

\* What one pass through the body of `loop` in consume_headers leaves
\* behind: the codec, the buffer, and either the value the pass returns
\* (returned) or nothing yet, the loop going round again.
Pass(c, b, r, returned) == [c |-> c, buf |-> b, res |-> r, returned |-> returned]

\* A pass that stores a string without cutting it from the buffer.
loop_iteration_keeps_bytes(c, b, checks) ==
    IF c.decoder_state = "ContentSeparator"
    THEN LET o == content_separator(c, b) IN Pass(o.c, o.buf, o.res, TRUE)
    ELSE IF position(b, c.next_search_index, NUL) # -1
    THEN Pass(header_string_stored([c EXCEPT !.next_search_index = 0], <<NUL>>),
              b, NoMessage, FALSE)
    ELSE Pass(scan_deferred(c, b), b, NoMessage, TRUE)

\* One iteration of the loop of consume_headers.
loop_iteration(c, b, checks) ==
    IF c.decoder_state = "ContentSeparator"
    THEN LET o == content_separator(c, b) IN Pass(o.c, o.buf, o.res, TRUE)
    ELSE IF c.decoder_state \in {"HeaderKey", "HeaderValue"} THEN
        IF c.next_search_index > Len(b)
        THEN Pass(c, b, Panicked("slice index starts out of range"), TRUE)
        ELSE LET end_offset == position(b, c.next_search_index, NUL) IN
            IF end_offset # -1
            THEN LET n == c.next_search_index + end_offset + 1
                     bytes_with_nul == split_head(b, n)
                     rest == split_rest(b, n)
                     c1 == [c EXCEPT !.next_search_index = 0]
                 IN IF checks /\ Len(bytes_with_nul) > c.header_remaining
                    THEN Pass(c1, rest, Panicked("attempt to subtract with overflow"), TRUE)
                    ELSE LET c2 == [c1 EXCEPT
                                      !.header_remaining =
                                          usize_sub(c.header_remaining, Len(bytes_with_nul)),
                                      !.hdr_consumed = c.hdr_consumed + Len(bytes_with_nul)]
                         IN IF ~consume_header_string_ok(bytes_with_nul)
                            THEN Pass(c2, rest,
                                      io_err(IF c.decoder_state = "HeaderKey"
                                             THEN "Failed to parse header key"
                                             ELSE "Failed to parse value for header"),
                                      TRUE)
                            ELSE Pass(header_string_stored(c2, bytes_with_nul), rest,
                                      NoMessage, FALSE)
            ELSE LET c1 == scan_deferred(c, b)
                 IN IF c1.next_search_index > MAX_HEADER_STRING_BYTES
                    THEN Pass(c1, b, io_err("Header key or value size exceeds maximum"), TRUE)
                    ELSE Pass(c1, b, NoMessage, TRUE)
    ELSE Pass(c, b, Panicked("Unexpected state"), TRUE)

\* decode up to the point where it returns or calls consume_headers: the
\* HeaderSize and Content arms, and the arm of the three header states.
decode_entered(c, b, checks) ==
    IF c.decoder_state = "HeaderSize" THEN
        IF c.next_search_index > Len(b)
        THEN Pass(c, b, Panicked("slice index starts out of range"), TRUE)
        ELSE LET end_offset == position(b, c.next_search_index, COLON) IN
            IF end_offset # -1
            THEN LET n == c.next_search_index + end_offset + 1
                     size_with_colon == split_head(b, n)
                     rest == split_rest(b, n)
                     c1 == [c EXCEPT !.next_search_index = 0]
                     size == consume_header_size(size_with_colon)
                 IN IF size = -1
                    THEN Pass(c1, rest, io_err("Header size is malformed"), TRUE)
                    ELSE LET c2 == [c1 EXCEPT !.header_remaining = size,
                                              !.hdr_declared = size,
                                              !.hdr_consumed = 0]
                         IN IF exceeds_max_header_bytes(c2.header_remaining)
                            THEN Pass(c2, rest, io_err("Header size exceeds maximum"), TRUE)
                            ELSE IF c2.header_remaining > 0
                            THEN Pass([c2 EXCEPT !.decoder_state = "HeaderKey"],
                                      rest, NoMessage, FALSE)
                            ELSE Pass([c2 EXCEPT !.decoder_state = "ContentSeparator"],
                                      rest, NoMessage, FALSE)
            ELSE Pass(scan_deferred(c, b), b, NoMessage, TRUE)
    ELSE IF c.decoder_state = "Content"
    THEN LET o == content(c, b) IN Pass(o.c, o.buf, o.res, TRUE)
    ELSE Pass(c, b, NoMessage, FALSE)

\* ---------------------------------------------------------------- encoder
\* A length that counts one NUL for each pair.
RECURSIVE sum_header_size_one_nul(_)
sum_header_size_one_nul(h) ==
    IF Len(h) = 0 THEN 0
    ELSE Len(h[1][1]) + Len(h[1][2]) + 1 + sum_header_size_one_nul(Tail(h))

\* The header-block length client encode computes: the sum over the pairs
\* of k.len() + 1 + v.len() + 1.
RECURSIVE sum_header_size(_)
sum_header_size(h) ==
    IF Len(h) = 0 THEN 0
    ELSE Len(h[1][1]) + 1 + Len(h[1][2]) + 1 + sum_header_size(Tail(h))

\* as_bytes().contains(&NUL)
contains_nul(s) == \E i \in 1..Len(s) : s[i] = NUL

\* A validation that looks at the first pair only.
validate_headers_first_pair(h) ==
    IF Len(h) = 0 THEN "Ok"
    ELSE IF Len(h[1][1]) = 0 THEN "InvalidInput"
    ELSE IF contains_nul(h[1][1]) \/ contains_nul(h[1][2]) THEN "InvalidInput"
    ELSE "Ok"

\* The validation loop of client encode: "Ok", or the InvalidInput error of
\* the first offending pair.
RECURSIVE validate_headers(_)
validate_headers(h) ==
    IF Len(h) = 0 THEN "Ok"
    ELSE IF Len(h[1][1]) = 0 THEN "InvalidInput"
    ELSE IF contains_nul(h[1][1]) \/ contains_nul(h[1][2]) THEN "InvalidInput"
    ELSE validate_headers(Tail(h))

\* The second loop of client encode: each key and value followed by a NUL.
RECURSIVE put_headers(_)
put_headers(h) ==
    IF Len(h) = 0 THEN <<>>
    ELSE h[1][1] \o <<NUL>> \o h[1][2] \o <<NUL>> \o put_headers(Tail(h))

\* An encoder that takes a Request only while nothing was written yet.
encode_request_once(h, body, out) ==
    IF validate_headers(h) # "Ok" \/ Len(out) > 0
    THEN [res |-> "InvalidInput", buf |-> out]
    ELSE [res |-> "Ok",
          buf |-> out \o to_string(sum_header_size(h)) \o <<COLON>>
                      \o put_headers(h) \o <<COMMA>> \o body]

\* <client::SCGICodec as Encoder>::encode for SCGIRequest::Request: the
\* value returned and the output buffer afterwards.
encode_request(h, body, out) ==
    IF validate_headers(h) # "Ok"
    THEN [res |-> validate_headers(h), buf |-> out]
    ELSE [res |-> "Ok",
          buf |-> out \o to_string(sum_header_size(h)) \o <<COLON>>
                      \o put_headers(h) \o <<COMMA>> \o body]

\* A fragment encoder that puts a separator in front of the bytes.
encode_fragment_framed(fragment, out) == [res |-> "Ok", buf |-> out \o <<COMMA>> \o fragment]

\* A fragment encoder that overwrites what the buffer held.
encode_fragment_replace(fragment, out) == [res |-> "Ok", buf |-> fragment]

\* <client::SCGICodec as Encoder>::encode for SCGIRequest::BodyFragment.
encode_fragment(fragment, out) == [res |-> "Ok", buf |-> out \o fragment]

\* <client::SCGICodec as Encoder>::encode: the match on the message.
encode(data, out) ==
    IF data.kind = "Request" THEN encode_request(data.headers, data.body, out)
    ELSE encode_fragment(data.body, out)

\* <lib.rs SCGICodec as Encoder>::encode: the encoder state afterwards, the
\* value returned and the output buffer afterwards.  For Headers the state
\* is tested, then set to Content, then the pairs are validated and written.
lib_encode(state, data, out) ==
    IF data.kind = "Headers" THEN
        IF state = "Content"
        THEN [state |-> state, res |-> "InvalidInput", buf |-> out]
        ELSE IF validate_headers(data.headers) # "Ok"
        THEN [state |-> "Content", res |-> validate_headers(data.headers), buf |-> out]
        ELSE [state |-> "Content", res |-> "Ok",
              buf |-> out \o to_string(sum_header_size(data.headers)) \o <<COLON>>
                          \o put_headers(data.headers) \o <<COMMA>>]
    ELSE [state |-> state, res |-> "Ok", buf |-> out \o data.body]

\* <client::SCGICodec as Decoder>::decode: Ok(Some(buf.split_to(buf.len()))),
\* the value returned and the buffer afterwards.
client_decode(b) == [res |-> [kind |-> "Item", bytes |-> b], buf |-> <<>>]

\* ---------------------------------------------------------------- gate
\* A response payload.  build_response renders the headers and the body
\* into a page with status 200, handle_error renders an error into a page
\* with status 400 (InvalidData) or 500, and Vec::new() is the empty
\* payload sent while the handler waits.
Page(status, h, body) == [status |-> status, headers |-> h, body |-> body]
build_response(h, body) == Page("200", h, body)
handle_error(err) == Page(IF err = "InvalidData" THEN "400" ELSE "500", <<>>, <<>>)
EmptyPayload == Page("none", <<>>, <<>>)

\* Ok(Async::Ready(None)), the end of a stream.
StreamEnd == [kind |-> "End", item |-> "none"]
\* Ok(Async::Ready(Some(item)))
Ready(item) == [kind |-> "Item", item |-> item]
\* Ok(Async::NotReady)
NotReady == [kind |-> "NotReady", item |-> "none"]
\* Err(err)
StreamErr(err) == [kind |-> "Err", item |-> err]
\* Ok(Async::Ready(Some(AbortableItem::Continue(item)))) and ..Stop(item)
Continue(item) == [kind |-> "Continue", item |-> item]
Stop(item) == [kind |-> "Stop", item |-> item]

\* The err_handler a gate is built with: None (AbortableStream::new), or
\* Some(fn) (AbortableStream::new_err) with a function that makes an item
\* of the error or one that returns None.  "SomePage" is the function
\* serve() passes, |err| Some(handle_error(err)).
Handlers == {"None", "SomeItem", "SomeNone"}
err_handler(handler, err) ==
    IF handler = "SomeItem" THEN Ready(IF err = "InvalidData" THEN "400" ELSE "500")
    ELSE IF handler = "SomePage" THEN Ready(handle_error(err))
    ELSE StreamEnd

\* A gate that does not set its flag on Stop.
poll_no_latch(stop, handler, polled) ==
    IF stop THEN [stop |-> stop, res |-> StreamEnd, polled |-> FALSE]
    ELSE IF polled.kind \in {"Continue", "Stop"}
    THEN [stop |-> stop, res |-> Ready(polled.item), polled |-> TRUE]
    ELSE IF polled.kind = "End" THEN [stop |-> stop, res |-> StreamEnd, polled |-> TRUE]
    ELSE IF polled.kind = "NotReady" THEN [stop |-> stop, res |-> NotReady, polled |-> TRUE]
    ELSE IF handler = "None"
    THEN [stop |-> stop, res |-> StreamErr(polled.item), polled |-> TRUE]
    ELSE [stop |-> stop, res |-> err_handler(handler, polled.item), polled |-> TRUE]

\* A gate that sets its flag when it passes an error on.
poll_err_latches(stop, handler, polled) ==
    IF stop THEN [stop |-> stop, res |-> StreamEnd, polled |-> FALSE]
    ELSE IF polled.kind = "Continue"
    THEN [stop |-> stop, res |-> Ready(polled.item), polled |-> TRUE]
    ELSE IF polled.kind = "Stop"
    THEN [stop |-> TRUE, res |-> Ready(polled.item), polled |-> TRUE]
    ELSE IF polled.kind = "End" THEN [stop |-> stop, res |-> StreamEnd, polled |-> TRUE]
    ELSE IF polled.kind = "NotReady" THEN [stop |-> stop, res |-> NotReady, polled |-> TRUE]
    ELSE IF handler = "None"
    THEN [stop |-> TRUE, res |-> StreamErr(polled.item), polled |-> TRUE]
    ELSE [stop |-> stop, res |-> err_handler(handler, polled.item), polled |-> TRUE]

\* A gate that ends the stream on Stop without yielding its payload.
poll_stop_drops_item(stop, handler, polled) ==
    IF stop THEN [stop |-> stop, res |-> StreamEnd, polled |-> FALSE]
    ELSE IF polled.kind = "Continue"
    THEN [stop |-> stop, res |-> Ready(polled.item), polled |-> TRUE]
    ELSE IF polled.kind = "Stop"
    THEN [stop |-> TRUE, res |-> StreamEnd, polled |-> TRUE]
    ELSE IF polled.kind = "End" THEN [stop |-> stop, res |-> StreamEnd, polled |-> TRUE]
    ELSE IF polled.kind = "NotReady" THEN [stop |-> stop, res |-> NotReady, polled |-> TRUE]
    ELSE IF handler = "None"
    THEN [stop |-> stop, res |-> StreamErr(polled.item), polled |-> TRUE]
    ELSE [stop |-> stop, res |-> err_handler(handler, polled.item), polled |-> TRUE]

\* A gate that sets its flag when the wrapped stream ends.
poll_end_latches(stop, handler, polled) ==
    IF stop THEN [stop |-> stop, res |-> StreamEnd, polled |-> FALSE]
    ELSE IF polled.kind = "Continue"
    THEN [stop |-> stop, res |-> Ready(polled.item), polled |-> TRUE]
    ELSE IF polled.kind = "Stop"
    THEN [stop |-> TRUE, res |-> Ready(polled.item), polled |-> TRUE]
    ELSE IF polled.kind = "End" THEN [stop |-> TRUE, res |-> StreamEnd, polled |-> TRUE]
    ELSE IF polled.kind = "NotReady" THEN [stop |-> stop, res |-> NotReady, polled |-> TRUE]
    ELSE IF handler = "None"
    THEN [stop |-> stop, res |-> StreamErr(polled.item), polled |-> TRUE]
    ELSE [stop |-> stop, res |-> err_handler(handler, polled.item), polled |-> TRUE]

\* <AbortableStream as Stream>::poll, where polled is what self.stream.poll()
\* returns if it is called: the flag afterwards, the value returned, and
\* whether the wrapped stream was polled.
poll(stop, handler, polled) ==
    IF stop THEN [stop |-> stop, res |-> StreamEnd, polled |-> FALSE]
    ELSE IF polled.kind = "Continue"
    THEN [stop |-> stop, res |-> Ready(polled.item), polled |-> TRUE]
    ELSE IF polled.kind = "Stop"
    THEN [stop |-> TRUE, res |-> Ready(polled.item), polled |-> TRUE]
    ELSE IF polled.kind = "End" THEN [stop |-> stop, res |-> StreamEnd, polled |-> TRUE]
    ELSE IF polled.kind = "NotReady" THEN [stop |-> stop, res |-> NotReady, polled |-> TRUE]
    ELSE IF handler = "None"
    THEN [stop |-> stop, res |-> StreamErr(polled.item), polled |-> TRUE]
    ELSE [stop |-> stop, res |-> err_handler(handler, polled.item), polled |-> TRUE]

\* ---------------------------------------------------------------- handler
\* The key the sample handler looks for: "Content-Length".
CONTENT_LENGTH == <<67, 111, 110, 116, 101, 110, 116, 45, 76, 101, 110, 103, 116, 104>>

\* SampleHandler::new()
new_handler == [headers |-> <<>>, body |-> <<>>, body_remaining |-> 0]

\* A handler that takes the last Content-Length header of the request.
content_length_header_last(h) ==
    LET hits == {i \in 1..Len(h) : h[i][1] = CONTENT_LENGTH}
    IN IF hits = {} THEN 0 ELSE CHOOSE i \in hits : \A j \in hits : i >= j

\* The index of the pair the loop `for pair in headers.iter()` stops at, 0
\* if none: the first whose key is "Content-Length", every arm of the match
\* on its value returning.
content_length_header(h) ==
    LET hits == {i \in 1..Len(h) : h[i][1] = CONTENT_LENGTH}
    IN IF hits = {} THEN 0 ELSE CHOOSE i \in hits : \A j \in hits : i <= j

\* A handler that stops only when the body is longer than Content-Length.
body_complete_strict(len, content_length) == len > content_length

\* body.len() >= content_length
body_complete(len, content_length) == len >= content_length

\* SampleHandler::handle: the handler afterwards and the value returned.
handle(h, req) ==
    IF req.kind = "Request" THEN
        LET i == content_length_header(req.headers) IN
        IF i = 0
        THEN [h |-> h, res |-> Stop(build_response(req.headers, req.body))]
        ELSE LET content_length == parse_usize(req.headers[i][2]) IN
            IF content_length = -1
            THEN [h |-> h, res |-> StreamErr("InvalidData")]
            ELSE IF body_complete(Len(req.body), content_length)
            THEN [h |-> h, res |-> Stop(build_response(req.headers, req.body))]
            ELSE [h |-> [headers |-> req.headers,
                         body |-> req.body,
                         body_remaining |-> content_length - Len(req.body)],
                  res |-> Continue(EmptyPayload)]
    ELSE LET more_body == req.body
             remaining == IF h.body_remaining <= Len(more_body)
                          THEN 0 ELSE h.body_remaining - Len(more_body)
             h1 == [h EXCEPT !.body_remaining = remaining, !.body = @ \o more_body]
         IN IF remaining <= 0
            THEN [h |-> h1, res |-> Stop(build_response(h1.headers, h1.body))]
            ELSE [h |-> h1, res |-> Continue(EmptyPayload)]

\* ---------------------------------------------------------------- inputs
\* What a wrapped stream returns from a poll.
Payloads == {"p", "q"}
Errors == {"InvalidData", "BrokenPipe"}
SourceResults ==
    {Continue(item) : item \in Payloads} \cup {Stop(item) : item \in Payloads}
    \cup {StreamEnd, NotReady} \cup {StreamErr(err) : err \in Errors}

\* Bytes a hostile peer sends: one of each class the decoder tells apart.
Byte == {NUL, COMMA, COLON, ZERO, THREE, LETTER_A}
\* The chunks of at most MaxChunk bytes that keep the input within MaxInput.
Chunks(sent) ==
    UNION {[1..n -> Byte] : n \in 1..(IF MaxInput - sent < MaxChunk
                                      THEN MaxInput - sent ELSE MaxChunk)}

\* Bytes of a peer that sends malformed size prefixes: a sign, a space, a
\* letter and a byte no UTF-8 text contains, next to digits and delimiters.
PrefixByte == {SPACE, PLUS, COMMA, ZERO, THREE, COLON, LETTER_A, BAD_BYTE}
PrefixChunks(sent) == UNION {[1..n -> PrefixByte] : n \in 1..(MaxPrefixInput - sent)}

\* The connections a server has open at once, the chunks their peers send
\* and what the streams their gates wrap return.
Conns == {1, 2}
ConnChunks == {<<ZERO, COLON>>, <<COLON>>, <<COMMA>>, <<LETTER_A>>}
ConnSourceResults == {Continue("p"), Stop("p"), StreamErr("InvalidData"), NotReady}
ConnHandlers == {"None", "SomeItem"}

\* The chunks, of any length, that keep the input within MaxScanInput.
ScanChunks(sent) == UNION {[1..n -> Byte] : n \in 1..(MaxScanInput - sent)}

\* Requests a client encodes.
EncKeys == {<<LETTER_A>>, <<LETTER_A, LETTER_B>>}
EncVals == {<<>>, <<LETTER_B>>}
EncPairs == (EncKeys \X EncVals) \cup {<< <<>>, <<>> >>, << <<LETTER_A>>, <<NUL>> >>}
EncBodies == SeqsOver({COMMA, LETTER_C}, 0, MaxBody)
Requests == [headers : SeqsOver(EncPairs, 0, MaxHeaders), body : EncBodies]
NoRequest == [headers |-> <<>>, body |-> <<>>]

\* The sample of the SCGI protocol text: its four headers, its body and
\* its bytes "70:CONTENT_LENGTH\027\0SCGI\01\0REQUEST_METHOD\0POST\0
\* REQUEST_URI\0/deepthought\0,What is the answer to life?".
SampleHeaders ==
    <<<<<<67, 79, 78, 84, 69, 78, 84, 95, 76, 69, 78, 71, 84, 72>>, <<50, 55>>>>,
      <<<<83, 67, 71, 73>>, <<49>>>>,
      <<<<82, 69, 81, 85, 69, 83, 84, 95, 77, 69, 84, 72, 79, 68>>, <<80, 79, 83, 84>>>>,
      <<<<82, 69, 81, 85, 69, 83, 84, 95, 85, 82, 73>>, <<47, 100, 101, 101, 112, 116, 104, 111, 117, 103, 104, 116>>>>>>
SampleBody ==
    <<87, 104, 97, 116, 32, 105, 115, 32, 116, 104, 101, 32, 97, 110, 115,
      119, 101, 114, 32, 116, 111, 32, 108, 105, 102, 101, 63>>
ProtocolSample ==
    <<55, 48, 58, 67, 79, 78, 84, 69, 78, 84, 95, 76, 69, 78, 71, 84, 72,
      0, 50, 55, 0, 83, 67, 71, 73, 0, 49, 0, 82, 69, 81, 85, 69, 83,
      84, 95, 77, 69, 84, 72, 79, 68, 0, 80, 79, 83, 84, 0, 82, 69, 81,
      85, 69, 83, 84, 95, 85, 82, 73, 0, 47, 100, 101, 101, 112, 116,
      104, 111, 117, 103, 104, 116, 0, 44, 87, 104, 97, 116, 32, 105,
      115, 32, 116, 104, 101, 32, 97, 110, 115, 119, 101, 114, 32, 116,
      111, 32, 108, 105, 102, 101, 63>>

\* Messages an application hands to the client codec: requests whose pairs
\* are valid (one with an empty value), but for at most one pair, at any
\* place of the list, that has an empty key, a NUL in the key or a NUL in
\* the value; body fragments; the protocol sample.
ValidPairs == {<< <<LETTER_A>>, <<>> >>, << <<LETTER_A>>, <<LETTER_B>> >>}
OffendingPairs == {<< <<>>, <<LETTER_B>> >>, << <<LETTER_A, NUL>>, <<LETTER_B>> >>,
                   << <<LETTER_A>>, <<NUL>> >>}
ClientPairs == ValidPairs \cup OffendingPairs
ClientHeaders ==
    {h \in SeqsOver(ClientPairs, 0, MaxHeaders) :
        Cardinality({i \in 1..Len(h) : h[i] \in OffendingPairs}) <= 1}
ClientBodies == {<<>>, <<LETTER_C>>}
ClientMessages ==
    [kind : {"Request"}, headers : ClientHeaders, body : ClientBodies]
    \cup [kind : {"BodyFragment"}, headers : {<<>>}, body : ClientBodies]
    \cup {[kind |-> "Request", headers |-> SampleHeaders, body |-> SampleBody]}

\* ---------------------------------------------------------------- actions
\* The codec fields as one value, and back.
codec == [decoder_state |-> decoder_state, header_remaining |-> header_remaining,
          header_key |-> header_key, headers |-> headers,
          next_search_index |-> next_search_index,
          hdr_declared |-> hdr_declared, hdr_consumed |-> hdr_consumed]

\* One decode call on the connection's buffer b, and what the caller sees.
DecodeCall(b) ==
    \E o \in {decode(codec, b, overflow_checks)} :
    /\ decoder_state' = o.c.decoder_state
    /\ header_remaining' = o.c.header_remaining
    /\ header_key' = o.c.header_key
    /\ headers' = o.c.headers
    /\ next_search_index' = o.c.next_search_index
    /\ hdr_declared' = o.c.hdr_declared
    /\ hdr_consumed' = o.c.hdr_consumed
    /\ buf' = o.buf
    /\ result' = o.res
    /\ nreq' = IF o.res.kind = "Request" THEN nreq + 1 ELSE nreq
    /\ got_headers' = IF o.res.kind = "Request"
                      THEN got_headers \o o.res.headers ELSE got_headers
    /\ got_content' = IF o.res.kind \in {"Request", "BodyFragment"}
                      THEN got_content \o o.res.body ELSE got_content
    /\ errored' = (errored \/ o.res.kind = "Err")
    /\ panicked' = (o.res.kind = "Panic")

\* A fresh codec, an empty buffer and a client that has encoded nothing.
InitCodec ==
    /\ decoder_state = new_codec.decoder_state
    /\ header_remaining = new_codec.header_remaining
    /\ header_key = new_codec.header_key
    /\ headers = new_codec.headers
    /\ next_search_index = new_codec.next_search_index
    /\ hdr_declared = 0
    /\ hdr_consumed = 0
    /\ buf = <<>>
    /\ overflow_checks \in BOOLEAN
    /\ enc_result = "none"
    /\ wire = <<>>
    /\ deliveries = 0
    /\ enc_log = <<>>
    /\ fed = <<>>
    /\ result = NoMessage
    /\ nreq = 0
    /\ got_headers = <<>>
    /\ got_content = <<>>
    /\ errored = FALSE
    /\ panicked = FALSE

\* A gate that is not in use.
GateIdle ==
    /\ gate_stop = FALSE
    /\ gate_handler = "None"
    /\ gate_result = StreamEnd
    /\ gate_polls = 0
    /\ gate_out = <<>>
    /\ src_hist = <<>>

\* A server with no connection open.
ConnsIdle == conns = <<>>

\* No step-wise call, client connection, handler, session or combined codec
\* in use.
ExtIdle ==
    /\ call = "none"
    /\ client_rx = "none"
    /\ sample_handler = "none"
    /\ session = "none"
    /\ encoder_state = "none"

InitCommon == InitCodec /\ GateIdle /\ ConnsIdle /\ ExtIdle

\* A peer that sends arbitrary bytes.
Init == InitCommon /\ request = NoRequest

\* A client that encodes one request and sends it.
InitEnc == InitCommon /\ request \in Requests

\* The transport appends a chunk of the peer's bytes to the buffer and the
\* connection loop calls decode.
Feed(chunk) ==
    /\ ~panicked
    /\ DecodeCall(buf \o chunk)
    /\ fed' = fed \o chunk
    /\ UNCHANGED <<overflow_checks, client_vars, gate_vars, conns, ext_vars>>

\* The connection loop calls decode again with no new bytes in the buffer.
Poll ==
    /\ ~panicked
    /\ DecodeCall(buf)
    /\ UNCHANGED <<overflow_checks, client_vars, fed, gate_vars, conns, ext_vars>>

\* The client encodes its request into its empty output buffer.
Encode ==
    /\ enc_result = "none"
    /\ \E e \in {encode_request(request.headers, request.body, wire)} :
        /\ enc_result' = e.res
        /\ wire' = e.buf
        /\ enc_log' = Append(enc_log, [kind |-> "Request", res |-> e.res])
    /\ UNCHANGED <<codec_vars, buf, overflow_checks, request, deliveries, obs_vars,
                   gate_vars, conns, ext_vars>>

\* The transport delivers the next k bytes the client wrote and the
\* connection loop calls decode.
Deliver(k) ==
    /\ ~panicked
    /\ enc_result = "Ok"
    /\ k <= Len(wire)
    /\ DecodeCall(buf \o SubSeq(wire, 1, k))
    /\ fed' = fed \o SubSeq(wire, 1, k)
    /\ wire' = SubSeq(wire, k + 1, Len(wire))
    /\ deliveries' = deliveries + 1
    /\ UNCHANGED <<overflow_checks, request, enc_result, enc_log, gate_vars, conns, ext_vars>>

Next == (\E chunk \in Chunks(Len(fed)) : Feed(chunk)) \/ Poll
Spec == Init /\ [][Next]_vars

\* Any chunk of the encoded request may be delivered, whole or a byte at a
\* time.
NextEnc == Encode \/ (\E k \in 1..Len(wire) : Deliver(k)) \/ Poll
SpecEnc == InitEnc /\ [][NextEnc]_vars

\* The application hands a message to the client codec, which encodes it at
\* the end of the connection's output buffer.
ClientEncode(data) ==
    /\ Len(enc_log) < MaxEncodes
    /\ \E e \in {encode(data, wire)} :
        /\ enc_result' = e.res
        /\ wire' = e.buf
        /\ enc_log' = Append(enc_log, [kind |-> data.kind, res |-> e.res])
    /\ request' = [headers |-> data.headers, body |-> data.body]
    /\ UNCHANGED <<codec_vars, buf, overflow_checks, deliveries, obs_vars,
                   gate_vars, conns, ext_vars>>

\* An application that makes several encode calls on one client codec.
NextClient == \E data \in ClientMessages : ClientEncode(data)
SpecClient == Init /\ [][NextClient]_vars

\* A gate built by new or new_err around a stream that has not been polled.
InitGate ==
    /\ InitCodec /\ request = NoRequest /\ ConnsIdle /\ ExtIdle
    /\ gate_stop = FALSE
    /\ gate_handler \in Handlers
    /\ gate_result = StreamEnd
    /\ gate_polls = 0
    /\ gate_out = <<>>
    /\ src_hist = <<>>

\* The consumer polls the gate; polled is what the wrapped stream returns
\* if the gate polls it.
GatePoll(polled) ==
    /\ gate_polls < MaxGatePolls
    /\ \E o \in {poll(gate_stop, gate_handler, polled)} :
        /\ gate_stop' = o.stop
        /\ gate_result' = o.res
        /\ gate_out' = IF o.res.kind = "Item" THEN Append(gate_out, o.res.item) ELSE gate_out
        /\ src_hist' = IF o.polled THEN Append(src_hist, polled) ELSE src_hist
    /\ gate_polls' = gate_polls + 1
    /\ UNCHANGED <<codec_vars, buf, overflow_checks, client_vars, obs_vars,
                   gate_handler, conns, ext_vars>>

NextGate == \E polled \in SourceResults : GatePoll(polled)
SpecGate == InitGate /\ [][NextGate]_vars

\* What serve() builds for a connection: a codec from SCGICodec::new(), the
\* framing adapter's empty buffer and a gate, with the log of the chunks
\* decoded, the decode results, the results offered to the gate by the
\* wrapped stream and the gate's results.
new_conn(handler) ==
    [c |-> new_codec, buf |-> <<>>, chunks |-> <<>>, results |-> <<>>,
     stop |-> FALSE, handler |-> handler, polled |-> <<>>, yielded |-> <<>>]

\* A server in which every call works on the state of the first connection.
connection_shared(cs, i) == cs[1]

\* The codec, buffer and gate a call made on connection i works on: the
\* ones built for that connection.
connection(cs, i) == cs[i]

\* The calls made so far on all connections.
RECURSIVE CallsMade(_, _)
CallsMade(cs, todo) ==
    IF todo = {} THEN 0
    ELSE LET i == CHOOSE j \in todo : TRUE
         IN Len(cs[i].chunks) + Len(cs[i].polled) + CallsMade(cs, todo \ {i})

InitConns ==
    /\ InitCodec /\ request = NoRequest /\ GateIdle /\ ExtIdle
    /\ conns \in [Conns -> {new_conn(handler) : handler \in ConnHandlers}]

\* The transport of connection i appends a chunk and its loop calls decode.
ConnDecode(i, chunk) ==
    /\ CallsMade(conns, Conns) < MaxConnCalls
    /\ \A k \in 1..Len(conns[i].results) : conns[i].results[k].kind # "Panic"
    /\ \E me \in {connection(conns, i)} :
       \E o \in {decode(me.c, me.buf \o chunk, overflow_checks)} :
        conns' = [conns EXCEPT ![i] = [conns[i] EXCEPT
                                        !.c = o.c,
                                        !.buf = o.buf,
                                        !.chunks = Append(@, chunk),
                                        !.results = Append(@, o.res)]]
    /\ UNCHANGED <<codec_vars, buf, overflow_checks, client_vars, obs_vars, gate_vars,
                   ext_vars>>

\* The consumer of connection i polls its gate; polled is what the wrapped
\* stream returns if the gate polls it.
ConnGatePoll(i, polled) ==
    /\ CallsMade(conns, Conns) < MaxConnCalls
    /\ \E me \in {connection(conns, i)} :
       \E o \in {poll(me.stop, me.handler, polled)} :
        conns' = [conns EXCEPT ![i] = [conns[i] EXCEPT
                                        !.stop = o.stop,
                                        !.polled = Append(@, polled),
                                        !.yielded = Append(@, o.res)]]
    /\ UNCHANGED <<codec_vars, buf, overflow_checks, client_vars, obs_vars, gate_vars,
                   ext_vars>>

\* The calls of the connections in any interleaving.
NextConns ==
    \E i \in Conns :
        \/ \E chunk \in ConnChunks : ConnDecode(i, chunk)
        \/ \E polled \in ConnSourceResults : ConnGatePoll(i, polled)
SpecConns == InitConns /\ [][NextConns]_vars

\* A peer whose chunks end anywhere, before or after a delimiter.
NextScan == (\E chunk \in ScanChunks(Len(fed)) : Feed(chunk)) \/ Poll
SpecScan == Init /\ [][NextScan]_vars

\* The chunks, of any length and empty too, that keep the input within
\* MaxLoopInput.
LoopChunks(sent) == UNION {[1..n -> Byte] : n \in 0..(MaxLoopInput - sent)}

\* A fresh codec and an empty buffer, no decode call made yet.  Of each
\* call are kept the number of bytes buffered when it started, the number
\* of loop iterations made, the state the latest pass started in, the bytes
\* that pass cut from the buffer, and the value returned.
InitLoop ==
    /\ InitCodec /\ request = NoRequest /\ GateIdle /\ ConnsIdle
    /\ call = [c |-> new_codec, buf |-> <<>>, res |-> NoMessage, running |-> FALSE,
               buffered |-> 0, iterations |-> 0, sent |-> 0,
               from |-> "HeaderSize", cut |-> 0]
    /\ client_rx = "none" /\ sample_handler = "none" /\ session = "none"
    /\ encoder_state = "none"

\* The transport appends a chunk (possibly nothing) and the connection loop
\* calls decode, which runs until it returns or enters consume_headers.
CallDecode(chunk) ==
    /\ ~call.running
    /\ call.res.kind # "Panic"
    /\ \E p \in {decode_entered(call.c, call.buf \o chunk, overflow_checks)} :
        call' = [c |-> p.c, buf |-> p.buf, res |-> p.res, running |-> ~p.returned,
                 buffered |-> Len(call.buf) + Len(chunk), iterations |-> 0,
                 sent |-> call.sent + Len(chunk), from |-> call.c.decoder_state,
                 cut |-> Len(call.buf) + Len(chunk) - Len(p.buf)]
    /\ UNCHANGED <<codec_vars, buf, overflow_checks, client_vars, obs_vars, gate_vars,
                   conns, client_rx, sample_handler, session, encoder_state>>

\* The call in progress goes once through the loop of consume_headers.
LoopIteration ==
    /\ call.running
    /\ \E p \in {loop_iteration(call.c, call.buf, overflow_checks)} :
        call' = [call EXCEPT !.c = p.c, !.buf = p.buf, !.res = p.res,
                             !.running = ~p.returned,
                             !.iterations = @ + 1,
                             !.from = call.c.decoder_state,
                             !.cut = Len(call.buf) - Len(p.buf)]
    /\ UNCHANGED <<codec_vars, buf, overflow_checks, client_vars, obs_vars, gate_vars,
                   conns, client_rx, sample_handler, session, encoder_state>>

NextLoop == (\E chunk \in LoopChunks(call.sent) : CallDecode(chunk)) \/ LoopIteration
SpecLoop == InitLoop /\ [][NextLoop]_vars

\* Bytes of a peer that draws every error of the decoder, and the requests
\* of an application that draws every error of the encoder.
KindByte == {NUL, ZERO, THREE, COLON, LETTER_A, BAD_BYTE}
KindChunks(sent) == UNION {[1..n -> KindByte] : n \in 1..(MaxPrefixInput - sent)}
KindRequests ==
    {[headers |-> << << <<LETTER_A>>, <<LETTER_B>> >> >>, body |-> <<>>],
     [headers |-> << << <<>>, <<LETTER_B>> >> >>, body |-> <<>>],
     [headers |-> << << <<LETTER_A>>, <<NUL>> >> >>, body |-> <<>>]}

\* A process in which a client codec encodes a request for one connection
\* while a server codec decodes what the peer of another sends.
InitKinds == InitCommon /\ request \in KindRequests
NextKinds == Encode \/ (\E chunk \in KindChunks(Len(fed)) : Feed(chunk)) \/ Poll
SpecKinds == InitKinds /\ [][NextKinds]_vars

\* Bytes of the response a server sends back, and its chunks.
ResponseByte == {NUL, LETTER_A, COMMA}
ResponseChunks(sent) == UNION {[1..n -> ResponseByte] : n \in 1..(MaxResponse - sent)}

\* A client connection with an empty read buffer on which decode has not
\* been called: the bytes received so far and what each call returned.
InitClientRx ==
    /\ InitCodec /\ request = NoRequest /\ GateIdle /\ ConnsIdle
    /\ client_rx = [buf |-> <<>>, received |-> <<>>, returned |-> <<>>]
    /\ call = "none" /\ sample_handler = "none" /\ session = "none"
    /\ encoder_state = "none"

\* The transport appends response bytes to the read buffer.
ClientReceive(chunk) ==
    /\ client_rx' = [client_rx EXCEPT !.buf = @ \o chunk, !.received = @ \o chunk]
    /\ UNCHANGED <<codec_vars, buf, overflow_checks, client_vars, obs_vars, gate_vars,
                   conns, call, sample_handler, session, encoder_state>>

\* The framing adapter calls decode of the client codec on the read buffer.
ClientDecode ==
    /\ Len(client_rx.returned) < MaxClientDecodes
    /\ \E o \in {client_decode(client_rx.buf)} :
        client_rx' = [client_rx EXCEPT !.buf = o.buf, !.returned = Append(@, o.res)]
    /\ UNCHANGED <<codec_vars, buf, overflow_checks, client_vars, obs_vars, gate_vars,
                   conns, call, sample_handler, session, encoder_state>>

NextClientRx ==
    (\E chunk \in ResponseChunks(Len(client_rx.received)) : ClientReceive(chunk))
    \/ ClientDecode
SpecClientRx == InitClientRx /\ [][NextClientRx]_vars

\* The messages the decoder hands to the sample handler: one Request, whose
\* headers may hold a Content-Length of 0 or 3, one that does not parse,
\* several of them or none, then body fragments, which are never empty.
HandlerPairs == {<<CONTENT_LENGTH, <<ZERO>>>>, <<CONTENT_LENGTH, <<THREE>>>>,
                 <<CONTENT_LENGTH, <<LETTER_A>>>>, <<<<LETTER_A>>, <<THREE>>>>}
HandlerHeaders == SeqsOver(HandlerPairs, 0, MaxHeaders)
HandlerRequests ==
    {RequestMsg(h, b) : h \in HandlerHeaders, b \in SeqsOver({LETTER_C}, 0, MaxHandlerBody)}
HandlerFragments ==
    {BodyFragmentMsg(b) : b \in SeqsOver({LETTER_C}, 1, MaxHandlerBody)}

\* A new handler that has been given nothing: its fields, the messages it
\* was given and what it returned for each.
InitHandler ==
    /\ InitCodec /\ request = NoRequest /\ GateIdle /\ ConnsIdle
    /\ sample_handler = [h |-> new_handler, given |-> <<>>, returned |-> <<>>]
    /\ call = "none" /\ client_rx = "none" /\ session = "none"
    /\ encoder_state = "none"

\* The session hands the next message of the decoder to the handler: the
\* Request first, fragments after it, and nothing once the handler has
\* returned Stop or an error, which ends the session's reads.
Handle(req) ==
    /\ Len(sample_handler.given) < MaxHandlerCalls
    /\ req.kind = "Request" <=> sample_handler.given = <<>>
    /\ \A i \in 1..Len(sample_handler.returned) :
            sample_handler.returned[i].kind = "Continue"
    /\ \E o \in {handle(sample_handler.h, req)} :
        sample_handler' = [h |-> o.h,
                           given |-> Append(sample_handler.given, req),
                           returned |-> Append(sample_handler.returned, o.res)]
    /\ UNCHANGED <<codec_vars, buf, overflow_checks, client_vars, obs_vars, gate_vars,
                   conns, call, client_rx, session, encoder_state>>

NextHandler == \E req \in HandlerRequests \cup HandlerFragments : Handle(req)
SpecHandler == InitHandler /\ [][NextHandler]_vars

\* Bytes the peer of a session sends, and the chunks, possibly empty, that
\* the transport has ready when the session is polled.
SessionByte == {ZERO, COLON, COMMA, LETTER_A}
SessionChunks(sent) == UNION {[1..n -> SessionByte] : n \in 0..(MaxSessionInput - sent)}

\* What serve() builds: a codec in a framing adapter, a SampleHandler, and a
\* gate with the error conversion |err| Some(handle_error(err)) whose items
\* send_all writes to the peer (gate_out).  Of the session are kept whether
\* send_all has finished or the task has unwound, the number of decode calls
\* made, and whether the decoder or the handler has reported an error.
InitSession ==
    /\ InitCodec /\ request = NoRequest /\ ConnsIdle
    /\ gate_stop = FALSE
    /\ gate_handler = "SomePage"
    /\ gate_result = StreamEnd
    /\ gate_polls = 0
    /\ gate_out = <<>>
    /\ src_hist = <<>>
    /\ sample_handler = [h |-> new_handler, given |-> <<>>, returned |-> <<>>]
    /\ session = [ended |-> FALSE, decodes |-> 0, diagnosed |-> FALSE]
    /\ call = "none" /\ client_rx = "none" /\ encoder_state = "none"

\* rx_scgi.and_then(|request| match handler.handle(request) ..): what the
\* stream the gate wraps returns for a decode result, and the handler
\* afterwards.  A handler error becomes Stop(handle_error(e)).  A decode
\* call that panics unwinds the task: nothing is returned to the gate.
and_then_handle(h, res) ==
    IF res.kind \in {"None", "Panic"}
    THEN [h |-> h, polled |-> NotReady, handled |-> FALSE, failed |-> FALSE]
    ELSE IF res.kind = "Err"
    THEN [h |-> h, polled |-> StreamErr(res.errkind), handled |-> FALSE, failed |-> TRUE]
    ELSE LET o == handle(h, res)
         IN [h |-> o.h,
             polled |-> IF o.res.kind = "Err" THEN Stop(handle_error(o.res.item))
                        ELSE o.res,
             handled |-> TRUE,
             failed |-> (o.res.kind = "Err")]

\* send_all polls the gate, which has its flag set: the stream ends and
\* send_all finishes without the framing adapter being polled.
SessionPollStopped ==
    /\ ~session.ended /\ ~panicked
    /\ gate_polls < MaxSessionPolls
    /\ gate_stop
    /\ \E g \in {poll(gate_stop, gate_handler, NotReady)} :
        /\ gate_stop' = g.stop
        /\ gate_result' = g.res
        /\ session' = [session EXCEPT !.ended = (g.res.kind = "End")]
    /\ gate_polls' = gate_polls + 1
    /\ UNCHANGED <<codec_vars, buf, overflow_checks, client_vars, obs_vars,
                   gate_handler, gate_out, src_hist, conns, call, client_rx,
                   sample_handler, encoder_state>>

\* send_all polls the gate, which polls the handler stream, which polls the
\* framing adapter: decode runs on the buffer with what the transport had
\* ready, the handler gets the message if there is one, and the item the
\* gate yields is written to the peer.
SessionPollRead(chunk) ==
    /\ ~session.ended /\ ~panicked
    /\ gate_polls < MaxSessionPolls
    /\ ~gate_stop
    /\ DecodeCall(buf \o chunk)
    /\ fed' = fed \o chunk
    /\ \E s \in {and_then_handle(sample_handler.h, result')} :
       \E g \in {poll(gate_stop, gate_handler, s.polled)} :
        /\ sample_handler' =
                IF s.handled
                THEN [h |-> s.h,
                      given |-> Append(sample_handler.given, result'),
                      returned |-> Append(sample_handler.returned, s.polled)]
                ELSE sample_handler
        /\ gate_stop' = g.stop
        /\ gate_result' = g.res
        /\ src_hist' = IF result'.kind = "Panic" THEN src_hist
                       ELSE Append(src_hist, s.polled)
        /\ gate_out' = IF g.res.kind = "Item" THEN Append(gate_out, g.res.item)
                       ELSE gate_out
        /\ session' = [ended |-> (g.res.kind \in {"End", "Err"} \/ result'.kind = "Panic"),
                       decodes |-> session.decodes + 1,
                       diagnosed |-> (session.diagnosed \/ s.failed)]
    /\ gate_polls' = gate_polls + 1
    /\ UNCHANGED <<overflow_checks, client_vars, gate_handler, conns, call, client_rx,
                   encoder_state>>

NextSession ==
    SessionPollStopped \/ (\E chunk \in SessionChunks(Len(fed)) : SessionPollRead(chunk))
SpecSession == InitSession /\ [][NextSession]_vars

\* Messages an application hands to the combined codec of lib.rs.
LibMessages ==
    [kind : {"Headers"}, headers : ClientHeaders, body : {<<>>}]
    \cup [kind : {"BodyFragment"}, headers : {<<>>}, body : ClientBodies]

\* lib.rs SCGICodec::new() and an empty output buffer.
InitLib ==
    /\ InitCodec /\ request = NoRequest /\ GateIdle /\ ConnsIdle
    /\ encoder_state = "HeaderSize"
    /\ call = "none" /\ client_rx = "none" /\ sample_handler = "none"
    /\ session = "none"

\* The application hands a message to the combined codec, which encodes it
\* at the end of the connection's output buffer.
LibEncode(data) ==
    /\ Len(enc_log) < MaxEncodes
    /\ \E e \in {lib_encode(encoder_state, data, wire)} :
        /\ encoder_state' = e.state
        /\ enc_result' = e.res
        /\ wire' = e.buf
        /\ enc_log' = Append(enc_log, [kind |-> data.kind, res |-> e.res])
    /\ request' = [headers |-> data.headers, body |-> data.body]
    /\ UNCHANGED <<codec_vars, buf, overflow_checks, deliveries, obs_vars,
                   gate_vars, conns, call, client_rx, sample_handler, session>>

NextLib == \E data \in LibMessages : LibEncode(data)
SpecLib == InitLib /\ [][NextLib]_vars

\* A peer whose bytes include the characters a size prefix must not hold.
NextPrefix == (\E chunk \in PrefixChunks(Len(fed)) : Feed(chunk)) \/ Poll
SpecPrefix == Init /\ [][NextPrefix]_vars

\* ---------------------------------------------------------------- claims
\* Keys non-empty and NUL-free, values NUL-free.
WellFormedHeaders(h) ==
    \A i \in 1..Len(h) :
        /\ Len(h[i][1]) > 0
        /\ \A j \in 1..Len(h[i][1]) : h[i][1][j] # NUL
        /\ \A j \in 1..Len(h[i][2]) : h[i][2][j] # NUL

\* The header block fits the decoder's maximum header size.
BlockWithinMax(h) == sum_header_size(h) <= MAX_HEADER_BYTES

\* Every key and value fits the decoder's maximum string size.
StringsWithinMax(h) ==
    \A i \in 1..Len(h) : /\ Len(h[i][1]) <= MAX_HEADER_STRING_BYTES
                         /\ Len(h[i][2]) <= MAX_HEADER_STRING_BYTES

\* The whole encoding has been delivered to the decoder as one chunk.
WholeInOneChunk == enc_result = "Ok" /\ deliveries = 1 /\ wire = <<>>

\* The step delivers the whole encoding as the first and only chunk.
DeliversWhole == deliveries = 0 /\ deliveries' = 1 /\ wire' = <<>>

\* What the round trip promises of the delivering call and of the call after.
RoundTripStep ==
    /\ (enc_result # "none" => enc_result = "Ok")
    /\ (DeliversWhole =>
            /\ result' = RequestMsg(request.headers, request.body)
            /\ buf' = <<>>)
    /\ (WholeInOneChunk => result' = NoMessage /\ buf' = <<>>)

\* C1 as stated: for every header list with non-empty NUL-free keys and
\* NUL-free values and every body, the encoder accepts the request and a fresh
\* decoder given the whole encoding in one buffer returns Request with the
\* same headers in the same order and the same body from that one call, leaves
\* the buffer empty and returns no message on the next call.
C1_RoundTrip_AnyHeaders ==
    [][WellFormedHeaders(request.headers) => RoundTripStep]_vars

\* C1 amended: the same, for header lists whose header block (the sum of
\* key + 1 + value + 1 over the pairs) is at most the maximum header size.
C1_RoundTrip ==
    [][(WellFormedHeaders(request.headers) /\ BlockWithinMax(request.headers))
        => RoundTripStep]_vars

\* C1 witness: a request with a duplicated key and a body went through the
\* decoder in one call and the next call returned no message.
C1_Witness ==
    /\ WholeInOneChunk
    /\ Len(request.headers) = 2
    /\ request.headers[1][1] = request.headers[2][1]
    /\ request.headers[1] # request.headers[2]
    /\ Len(request.body) > 0
    /\ got_headers = request.headers
    /\ got_content = request.body
    /\ result = NoMessage

\* What a fresh decoder returns when given bytes in a single call.
OneShot(bytes) == decode(new_codec, bytes, overflow_checks).res

\* Every chunk delivered so far was a single byte.
ByteAtATime == enc_result = "Ok" /\ deliveries = Len(fed)

\* The byte-at-a-time run never failed and, once everything is delivered,
\* has produced one Request and the headers and body of the single call.
SameAsOneShot ==
    /\ ~errored /\ ~panicked
    /\ wire = <<>> =>
        \A one \in {OneShot(fed)} :
            /\ one.kind = "Request"
            /\ nreq = 1
            /\ got_headers = one.headers
            /\ got_content = one.body

\* C2 as stated: for every encoded request, feeding the bytes one per decode
\* call never returns an error and yields exactly one Request with the headers
\* and the concatenated body of the single-call decode.
C2_ByteAtATime_AnyRequest == ByteAtATime => SameAsOneShot

\* C2 amended: the same, for requests whose header block is at most the
\* maximum header size and whose keys and values are each at most the
\* maximum string size.
C2_ByteAtATime ==
    (ByteAtATime /\ BlockWithinMax(request.headers) /\ StringsWithinMax(request.headers))
        => SameAsOneShot

\* C2 witness: a two-header request with a two-byte body was delivered a byte
\* at a time, the last call returning the second body fragment.
C2_Witness ==
    /\ ByteAtATime /\ wire = <<>>
    /\ Len(request.headers) = 2
    /\ Len(request.body) > 1
    /\ nreq = 1
    /\ got_headers = request.headers
    /\ got_content = request.body
    /\ result.kind = "BodyFragment"

\* C3: for every byte sequence, the run that got it in chunks and the run
\* that gets it in one chunk either both report a fatal error or both report
\* none, and when neither fails they produce the same headers and body.
C3_ChunkingIndependent ==
    \A one \in {OneShot(fed)} :
        (~panicked /\ one.kind # "Panic") =>
            /\ errored <=> one.kind = "Err"
            /\ ~errored =>
                /\ nreq = (IF one.kind = "Request" THEN 1 ELSE 0)
                /\ got_headers = one.headers
                /\ got_content = one.body

\* C4: no decode call panics, whatever the bytes and the chunking.
C4_NoPanic == result.kind # "Panic"

\* C5: once a decode call has returned a fatal error, no later call on the
\* same decoder returns a Request or a BodyFragment.
C5_ErrorsFinal == [][errored => result'.kind \notin {"Request", "BodyFragment"}]_vars

\* C6: at most one Request is emitted, and a BodyFragment is emitted only
\* after it.
C6_MessageOrdering ==
    /\ nreq <= 1
    /\ result.kind = "BodyFragment" => nreq = 1
    /\ nreq = 0 => got_content = <<>>

\* C6 witness: a BodyFragment was returned after the Request.
C6_Witness == result.kind = "BodyFragment" /\ nreq = 1 /\ Len(got_content) > 1

\* C7: once decoder_state is Content no decode call changes it.
C7_ContentAbsorbing == [][decoder_state = "Content" => decoder_state' = "Content"]_vars

\* C7 witness: a decode call ran in the Content state and forwarded bytes.
C7_Witness == decoder_state = "Content" /\ result.kind = "BodyFragment"

\* The bytes of the request body delivered so far: what was fed beyond the
\* size prefix, the header block and the ',' separator.
DeliveredBody ==
    LET header_part == Len(fed) + Len(wire) - Len(request.body)
    IN IF Len(fed) > header_part THEN SubSeq(fed, header_part + 1, Len(fed)) ELSE <<>>

EmptyRequestBytes == <<ZERO, COLON, COMMA>>

\* C9: the input "0:," decodes to Request([], empty) and every later decode
\* call with no new bytes returns no message; no BodyFragment is ever empty.
C9_EmptyBody ==
    /\ result.kind = "BodyFragment" => Len(result.body) > 0
    /\ fed = EmptyRequestBytes =>
        /\ result \in {RequestMsg(<<>>, <<>>), NoMessage}
        /\ nreq = 1
        /\ got_headers = <<>>
        /\ got_content = <<>>
        /\ ~errored /\ ~panicked
        /\ buf = <<>>

\* C9 witness: after "0:," and its Request, a further call returned no
\* message.
C9_Witness == fed = EmptyRequestBytes /\ nreq = 1 /\ result = NoMessage

\* C10: when a Request is emitted the key and value bytes consumed, NULs
\* included, equal the declared header-block length; nothing is consumed as
\* a key or value before the size prefix was parsed.
C10_DeclaredSizeExact ==
    /\ result.kind = "Request" => hdr_consumed = hdr_declared
    /\ decoder_state = "HeaderSize" =>
        /\ hdr_consumed = 0
        /\ headers = <<>>
        /\ header_key = <<>>

\* C10 witness: a Request with a header was emitted for a non-zero declared
\* length.
C10_Witness ==
    /\ result.kind = "Request"
    /\ Len(result.headers) > 0
    /\ hdr_declared > 0
    /\ hdr_consumed = hdr_declared

\* C11: a key or value that would take more than the remaining header budget
\* is never consumed: the bytes consumed as keys and values never exceed the
\* declared length, header_remaining never leaves the range 0..declared
\* (neither by a subtraction that wraps nor by one that aborts the call).
C11_WithinBlock ==
    /\ hdr_consumed <= hdr_declared
    /\ header_remaining <= hdr_declared
    /\ result.err # "attempt to subtract with overflow"

\* The offset of the first ':' the peer sent, -1 when there is none.
FirstColon == position(fed, 0, COLON)

\* C12: a size prefix that starts with '0' and has more than one character
\* before ':' is answered with a fatal error and nothing is accepted by the
\* call that parsed it; the prefix "0:" is accepted without error, the
\* decoder then waits for the separator, and a ',' that follows yields a
\* Request with no headers.
C12_LeadingZero ==
    /\ (FirstColon > 1 /\ fed[1] = ZERO) =>
            /\ errored
            /\ Len(fed) = FirstColon + 1 =>
                    /\ decoder_state = "HeaderSize"
                    /\ result.kind \in {"Err", "None"}
                    /\ nreq = 0
    /\ (FirstColon = 1 /\ fed[1] = ZERO) =>
            /\ Len(fed) = 2 =>
                    /\ ~errored
                    /\ decoder_state = "ContentSeparator"
                    /\ result = NoMessage
            /\ (Len(fed) > 2 /\ fed[3] = COMMA) =>
                    /\ ~errored
                    /\ nreq = 1
                    /\ got_headers = <<>>
                    /\ decoder_state = "Content"

\* C12 witness: the prefix "00:" was answered with a fatal error.
C12_Witness == fed = <<ZERO, ZERO, COLON>> /\ result.kind = "Err"

\* The bytes the peer sent before its first ':'.
SizePrefix == SubSeq(fed, 1, FirstColon)

\* A non-empty string of ASCII decimal digits.
IsDecimal(s) == Len(s) > 0 /\ \A i \in 1..Len(s) : s[i] >= ZERO /\ s[i] <= NINE

\* C13: whenever the bytes before the first ':' are empty or contain a byte
\* that is not an ASCII decimal digit, decode has returned a fatal error,
\* and the call that parsed the prefix declared no header block and left the
\* HeaderSize state for no other.
C13_DigitsOnly ==
    (FirstColon >= 0 /\ ~IsDecimal(SizePrefix)) =>
        /\ errored
        /\ Len(fed) = FirstColon + 1 =>
                /\ decoder_state = "HeaderSize"
                /\ result.kind \in {"Err", "None"}

\* The length of the size prefix of the encoded request, ':' included.
EncodedPrefixLen == Len(to_string(sum_header_size(request.headers))) + 1

\* C14: once the size prefix of an encoded request went through decode, a
\* declared length above the maximum header size has been answered with a
\* fatal error, every byte delivered after ':' is still in the buffer, and
\* the decoder is still in HeaderSize with no key or header stored; a
\* declared length up to and including the maximum is accepted: the decoder
\* has left HeaderSize with that length as its budget.
C14_Oversized ==
    (enc_result = "Ok" /\ Len(fed) >= EncodedPrefixLen) =>
        IF sum_header_size(request.headers) > MAX_HEADER_BYTES
        THEN /\ errored
             /\ Len(fed) = EncodedPrefixLen => result.kind \in {"Err", "None"}
             /\ decoder_state = "HeaderSize"
             /\ buf = SubSeq(fed, EncodedPrefixLen + 1, Len(fed))
             /\ headers = <<>> /\ header_key = <<>>
             /\ hdr_consumed = 0
             /\ nreq = 0
        ELSE /\ decoder_state # "HeaderSize"
             /\ hdr_declared = sum_header_size(request.headers)
             /\ result.err # "Header size exceeds maximum"

\* C14 witness: a header block one byte above the maximum was refused by
\* the call that got the prefix together with bytes of the block, which
\* stay in the buffer.
C14_Witness ==
    /\ enc_result = "Ok"
    /\ sum_header_size(request.headers) = MAX_HEADER_BYTES + 1
    /\ result = io_err("Header size exceeds maximum")
    /\ decoder_state = "HeaderSize"
    /\ Len(buf) > 0

\* C15: no emitted Request contains a key or value longer than the maximum
\* single-string length, whether the string arrived in one chunk together
\* with its NUL or across many chunks.
C15_StringCap == result.kind = "Request" => StringsWithinMax(result.headers)

\* C16: in every state before Content, when decode answers "no message yet"
\* the bytes it leaves in the buffer number at most a fixed constant, the
\* largest length the decoder allows a pending string to reach.
C16_BoundedRetention ==
    (decoder_state # "Content" /\ result.kind = "None") =>
        Len(buf) <= MAX_HEADER_STRING_BYTES

\* The buffer a decode call of this step works on: what the previous call
\* left, followed by the bytes the step appended.
CallBuffer == buf \o SubSeq(fed', Len(fed) + 1, Len(fed'))

\* C17 as stated: a decode call that starts in ContentSeparator returns "no
\* message yet" and changes nothing when the buffer is empty; when the first
\* byte is ',' it consumes exactly that one byte, the rest of the buffer
\* staying where it is, and returns the Request; when the first byte is
\* anything else it returns a fatal error, consumes nothing and stays in
\* ContentSeparator.
C17_SeparatorCheck_OneByte ==
    [][decoder_state = "ContentSeparator" =>
        IF CallBuffer = <<>>
        THEN result' = NoMessage /\ UNCHANGED <<codec_vars, buf>>
        ELSE IF CallBuffer[1] = COMMA
        THEN /\ result'.kind = "Request"
             /\ result'.headers = headers
             /\ buf' = Tail(CallBuffer)
             /\ decoder_state' = "Content"
        ELSE /\ result'.kind = "Err"
             /\ buf' = CallBuffer
             /\ UNCHANGED codec_vars]_vars

\* C17 amended: the same, except that with a first byte ',' the call
\* consumes the whole buffer: the ',' as the separator and every byte behind
\* it as the body of the Request it returns with the stored headers.
C17_SeparatorCheck ==
    [][decoder_state = "ContentSeparator" =>
        IF CallBuffer = <<>>
        THEN result' = NoMessage /\ UNCHANGED <<codec_vars, buf>>
        ELSE IF CallBuffer[1] = COMMA
        THEN /\ result' = RequestMsg(headers, Tail(CallBuffer))
             /\ buf' = <<>>
             /\ decoder_state' = "Content"
        ELSE /\ result'.kind = "Err"
             /\ buf' = CallBuffer
             /\ UNCHANGED codec_vars]_vars

\* C17 witness: after a header block was consumed, a byte other than ','
\* was refused and is still in the buffer, the decoder in ContentSeparator.
C17_Witness ==
    /\ decoder_state = "ContentSeparator"
    /\ hdr_declared > 0 /\ hdr_consumed = hdr_declared
    /\ result.kind = "Err"
    /\ Len(buf) > 0 /\ buf[1] # COMMA

\* The step is an encode call with a Request.
EncodesRequest ==
    /\ Len(enc_log') = Len(enc_log) + 1
    /\ enc_log'[Len(enc_log')].kind = "Request"

\* The bytes the step added at the end of the output buffer.
Appended == SubSeq(wire', Len(wire) + 1, Len(wire'))

\* Where the i-th pair starts in the header block: the lengths of the pairs
\* before it, each key and each value counted with one NUL.
RECURSIVE PairOffset(_, _)
PairOffset(h, i) ==
    IF i = 1 THEN 0
    ELSE PairOffset(h, i - 1) + Len(h[i - 1][1]) + 1 + Len(h[i - 1][2]) + 1

\* The block holds each key and each value of h in list order, each
\* followed by one NUL, and nothing else.
IsHeaderBlock(block, h) ==
    /\ Len(block) = PairOffset(h, Len(h) + 1)
    /\ \A i \in 1..Len(h) :
        LET at == PairOffset(h, i)
            klen == Len(h[i][1])
            vlen == Len(h[i][2])
        IN /\ SubSeq(block, at + 1, at + klen) = h[i][1]
           /\ block[at + klen + 1] = NUL
           /\ SubSeq(block, at + klen + 2, at + klen + 1 + vlen) = h[i][2]
           /\ block[at + klen + vlen + 2] = NUL

\* The bytes are a decimal number without leading zero, ':', the header
\* block of h whose length is that number, ',' and the body.
IsWireFormat(bytes, h, body) ==
    LET colon == position(bytes, 0, COLON)
        size == PairOffset(h, Len(h) + 1)
        size_str == SubSeq(bytes, 1, colon)
    IN /\ colon > 0
       /\ IsDecimal(size_str)
       /\ Len(size_str) > 1 => size_str[1] # ZERO
       /\ digits_value(size_str, 0) = size
       /\ Len(bytes) = colon + 1 + size + 1 + Len(body)
       /\ IsHeaderBlock(SubSeq(bytes, colon + 2, colon + 1 + size), h)
       /\ bytes[colon + size + 2] = COMMA
       /\ SubSeq(bytes, colon + size + 3, Len(bytes)) = body

\* C18: an encode call with a valid Request keeps what was in the output
\* buffer and appends the decimal header-block length (the sum of key + 1 +
\* value + 1 over the pairs, no leading zero, "0" for no pairs), ':', each key
\* and value in list order followed by one NUL, ',' and the body verbatim;
\* for the headers and body of the protocol sample the appended bytes are
\* the sample.
C18_WireFormat ==
    [][(EncodesRequest /\ WellFormedHeaders(request'.headers)) =>
        /\ enc_result' = "Ok"
        /\ SubSeq(wire', 1, Len(wire)) = wire
        /\ IsWireFormat(Appended, request'.headers, request'.body)
        /\ (request'.headers = <<>> => SubSeq(Appended, 1, 2) = <<ZERO, COLON>>)
        /\ ((request'.headers = SampleHeaders /\ request'.body = SampleBody)
                => Appended = ProtocolSample)]_vars

\* C18 witness: the protocol sample was encoded after a two-header request
\* with a body.
C18_Witness ==
    /\ Len(enc_log) = 2
    /\ enc_log[1] = [kind |-> "Request", res |-> "Ok"]
    /\ enc_result = "Ok"
    /\ request = [headers |-> SampleHeaders, body |-> SampleBody]
    /\ wire = <<ZERO + 7, COLON, LETTER_A, NUL, LETTER_B, NUL, LETTER_A, NUL, NUL,
                COMMA, LETTER_C>> \o ProtocolSample

\* C19: an encode call with a Request in which some pair, wherever it is
\* in the list, has an empty key or a NUL in its key or value returns the
\* InvalidInput error and leaves the output buffer as it was; a Request
\* without such a pair is accepted, empty values included.
C19_ValidationAtomic ==
    [][EncodesRequest =>
        IF WellFormedHeaders(request'.headers)
        THEN enc_result' = "Ok"
        ELSE enc_result' = "InvalidInput" /\ wire' = wire]_vars

\* C19 witness: with bytes of an earlier request in the buffer, a request
\* whose second pair is the offending one was refused.
C19_Witness ==
    /\ Len(enc_log) = 2
    /\ enc_log[1].res = "Ok"
    /\ enc_result = "InvalidInput"
    /\ Len(wire) > 0
    /\ Len(request.headers) = 2
    /\ WellFormedHeaders(<<request.headers[1]>>)
    /\ request.headers[1][2] = <<>>

\* C20: whatever encode calls were made before on the same codec, accepted
\* or refused, an encode call with a valid Request succeeds and appends the
\* bytes a fresh encoder writes into an empty buffer.
C20_Stateless ==
    [][(EncodesRequest /\ WellFormedHeaders(request'.headers)) =>
        /\ enc_result' = "Ok"
        /\ wire' = wire \o encode_request(request'.headers, request'.body, <<>>).buf]_vars

\* C20 witness: after a refused request, a valid request with headers and
\* a body was encoded.
C20_Witness ==
    /\ Len(enc_log) = 2
    /\ enc_log[1] = [kind |-> "Request", res |-> "InvalidInput"]
    /\ enc_log[2] = [kind |-> "Request", res |-> "Ok"]
    /\ Len(request.headers) = 2
    /\ Len(request.body) > 0
    /\ Len(wire) > 0

\* The step is an encode call with a BodyFragment.
EncodesFragment ==
    /\ Len(enc_log') = Len(enc_log) + 1
    /\ enc_log'[Len(enc_log')].kind = "BodyFragment"

\* The step encodes a BodyFragment into a buffer that holds exactly the
\* encoding of a valid Request with an empty body.
SplitEncoding ==
    /\ enc_log = <<[kind |-> "Request", res |-> "Ok"]>>
    /\ request.body = <<>>
    /\ EncodesFragment

\* The split encoding and the single encoding are the same bytes, and a
\* fresh decoder returns the Request from them in one call.
SplitEqualsWhole ==
    /\ wire' = encode_request(request.headers, request'.body, <<>>).buf
    /\ OneShot(wire') = RequestMsg(request.headers, request'.body)
    /\ OneShot(encode_request(request.headers, request'.body, <<>>).buf)
            = RequestMsg(request.headers, request'.body)

\* C21 as stated: for every valid header list and body, encoding
\* Request(headers, empty) and then BodyFragment(body) into the same buffer
\* gives the bytes of encoding Request(headers, body) once, and a fresh
\* decoder reading either buffer in one call returns Request(headers, body).
C21_SplitEncoding_AnyHeaders == [][SplitEncoding => SplitEqualsWhole]_vars

\* C21 amended: the same, for header lists whose header block is at most
\* the maximum header size.
C21_SplitEncoding ==
    [][(SplitEncoding /\ BlockWithinMax(request.headers)) => SplitEqualsWhole]_vars

\* C21 witness: the request [(a, b)] was encoded with an empty body, the
\* body "c" after it as a fragment, and the buffer decodes to the Request.
C21_Witness ==
    /\ enc_log = <<[kind |-> "Request", res |-> "Ok"],
                   [kind |-> "BodyFragment", res |-> "Ok"]>>
    /\ request.body = <<LETTER_C>>
    /\ wire = <<ZERO + 4, COLON, LETTER_A, NUL, LETTER_B, NUL, COMMA, LETTER_C>>
    /\ OneShot(wire) = RequestMsg(<< <<<<LETTER_A>>, <<LETTER_B>>>> >>, <<LETTER_C>>)

\* C22: every successful encode call keeps the bytes the output buffer held
\* and only appends; a BodyFragment call appends exactly the fragment, so an
\* empty fragment leaves the buffer as it was.
C22_AppendOnly ==
    [][(Len(enc_log') = Len(enc_log) + 1 /\ enc_result' = "Ok") =>
        /\ Len(wire') >= Len(wire)
        /\ SubSeq(wire', 1, Len(wire)) = wire
        /\ EncodesFragment => wire' = wire \o request'.body
        /\ (EncodesFragment /\ request'.body = <<>>) => wire' = wire]_vars

\* C22 witness: an empty fragment was encoded after a request and a
\* non-empty fragment after that.
C22_Witness ==
    /\ Len(enc_log) = 2
    /\ enc_log[1] = [kind |-> "Request", res |-> "Ok"]
    /\ enc_log[2] = [kind |-> "BodyFragment", res |-> "Ok"]
    /\ request.body = <<>>
    /\ Len(wire) > 0

\* The step is a poll of the gate, and a poll in which the gate polled the
\* wrapped stream.
GatePolled == gate_polls' = gate_polls + 1
SourcePolled == Len(src_hist') = Len(src_hist) + 1
SourceReturned == src_hist'[Len(src_hist')]

\* The wrapped stream has returned a Stop item, an error.
HasStop(hist) == \E i \in 1..Len(hist) : hist[i].kind = "Stop"
HasErr(hist) == \E i \in 1..Len(hist) : hist[i].kind = "Err"

\* C23: the poll in which the wrapped stream returns Stop(p) returns p and
\* sets the stop flag; once the stream has returned a Stop the flag is set
\* and stays set, every poll returns end-of-stream and the wrapped stream is
\* not polled.
C23_StopLatch ==
    [][GatePolled =>
        /\ (SourcePolled /\ SourceReturned.kind = "Stop") =>
                gate_result' = Ready(SourceReturned.item) /\ gate_stop'
        /\ HasStop(src_hist) =>
                /\ gate_stop /\ gate_stop'
                /\ gate_result' = StreamEnd
                /\ src_hist' = src_hist]_vars

\* C23 witness: after a Continue and a Stop the gate was polled twice more
\* and returned end-of-stream.
C23_Witness ==
    /\ gate_stop
    /\ Len(src_hist) = 2 /\ src_hist[1].kind = "Continue" /\ src_hist[2].kind = "Stop"
    /\ gate_polls = 4
    /\ gate_result = StreamEnd

\* C24: for a gate built with a conversion function, the poll in which the
\* wrapped stream returns an error returns what the function made of it,
\* and after that every poll returns end-of-stream without polling the
\* wrapped stream.
C24_ErrConversionFinal ==
    [][(GatePolled /\ gate_handler # "None") =>
        /\ (SourcePolled /\ SourceReturned.kind = "Err") =>
                gate_result' = err_handler(gate_handler, SourceReturned.item)
        /\ HasErr(src_hist) =>
                /\ gate_result' = StreamEnd
                /\ src_hist' = src_hist]_vars

\* C25: for a gate built without a conversion function, the poll in which
\* the wrapped stream returns an error returns that error, yields no item
\* and leaves the stop flag as it was.
C25_ErrPassthrough ==
    [][(GatePolled /\ gate_handler = "None" /\ SourcePolled /\ SourceReturned.kind = "Err") =>
        /\ gate_result' = StreamErr(SourceReturned.item)
        /\ gate_out' = gate_out
        /\ gate_stop' = gate_stop]_vars

\* C25 witness: the gate passed two different errors on, one after the
\* other, and its flag is not set.
C25_Witness ==
    /\ gate_handler = "None"
    /\ Len(src_hist) = 2
    /\ src_hist[1] = StreamErr("InvalidData")
    /\ gate_result = StreamErr("BrokenPipe")
    /\ ~gate_stop
    /\ gate_out = <<>>

\* The payloads of the Continue and Stop items of hist, in order, up to
\* and including the first Stop.
RECURSIVE UpToFirstStop(_)
UpToFirstStop(hist) ==
    IF Len(hist) = 0 THEN <<>>
    ELSE IF hist[1].kind = "Stop" THEN <<hist[1].item>>
    ELSE IF hist[1].kind = "Continue" THEN <<hist[1].item>> \o UpToFirstStop(Tail(hist))
    ELSE UpToFirstStop(Tail(hist))

\* C26: as long as the wrapped stream returns no error, the payloads the
\* gate has yielded are the payloads of the items the stream returned, in
\* order, up to and including the first Stop, and the stream has returned
\* nothing after that Stop.
C26_OutputSequence ==
    ~HasErr(src_hist) =>
        /\ gate_out = UpToFirstStop(src_hist)
        /\ \A i \in 1..Len(src_hist) : src_hist[i].kind = "Stop" => i = Len(src_hist)

\* C26 witness: two Continue items and a Stop went through the gate in
\* order, and a further poll returned end-of-stream.
C26_Witness ==
    /\ gate_out = <<"q", "p", "q">>
    /\ Len(src_hist) = 3
    /\ src_hist[3] = Stop("q")
    /\ gate_polls = 4
    /\ gate_result = StreamEnd

\* C27: in every Request the decoder emits no key is empty and no key or
\* value contains a NUL byte.
C27_DecodedHeadersValid == result.kind = "Request" => WellFormedHeaders(result.headers)

\* The delimiter the decoder seeks in its state: ':' in HeaderSize, NUL in
\* HeaderKey and HeaderValue.
Sought == IF decoder_state = "HeaderSize" THEN COLON ELSE NUL

\* bytes holds the delimiter.
Holds(bytes, byte) == \E i \in 1..Len(bytes) : bytes[i] = byte

CursorWithinScanned(b) ==
    /\ next_search_index <= Len(b)
    /\ decoder_state \in {"HeaderSize", "HeaderKey", "HeaderValue"} =>
            ~Holds(SubSeq(b, 1, next_search_index), Sought)

\* C30 as stated: when the caller only appends to the buffer between calls,
\* at the start of every decode call next_search_index is at most the buffer
\* length and no byte below it is the delimiter sought, and
\* next_search_index is 0 after every call that removed bytes from the
\* buffer, calls that returned an error included.
C30_ScanCursor_ZeroAfterRemoval ==
    [][/\ CursorWithinScanned(CallBuffer)
       /\ Len(buf') < Len(CallBuffer) => next_search_index' = 0]_vars

\* C30 amended: the same, except that after a call that removed bytes
\* next_search_index is 0 or, when the call ended with a scan that did not
\* find its delimiter in what remained, the length of what remained.
C30_ScanCursor ==
    [][/\ CursorWithinScanned(CallBuffer)
       /\ Len(buf') < Len(CallBuffer) =>
                \/ next_search_index' = 0
                \/ /\ next_search_index' = Len(buf')
                   /\ decoder_state' \in {"HeaderKey", "HeaderValue"}
                   /\ ~Holds(buf', NUL)]_vars

\* C30 witness: a call removed the size prefix and a key and left the
\* cursor behind the one byte of the value it could not finish.
C30_Witness ==
    /\ fed = <<THREE, COLON, LETTER_A, NUL, LETTER_A>>
    /\ decoder_state = "HeaderValue"
    /\ buf = <<LETTER_A>>
    /\ next_search_index = 1

\* What a codec that runs alone returns for a sequence of chunks.
RECURSIVE DecodeAlone(_, _, _, _)
DecodeAlone(c, b, chunks, checks) ==
    IF Len(chunks) = 0 THEN <<>>
    ELSE LET o == decode(c, b \o chunks[1], checks)
         IN <<o.res>> \o DecodeAlone(o.c, o.buf, Tail(chunks), checks)

\* What a gate that runs alone returns for a sequence of results its
\* wrapped stream has ready.
RECURSIVE PollAlone(_, _, _)
PollAlone(stop, handler, polled) ==
    IF Len(polled) = 0 THEN <<>>
    ELSE LET o == poll(stop, handler, polled[1])
         IN <<o.res>> \o PollAlone(o.stop, handler, Tail(polled))

\* C28: whatever the interleaving of the calls made on two connections, the
\* results the codec and the gate of each connection have returned are those
\* a codec and a gate running alone return for the chunks and polls made on
\* that connection.
C28_Independent ==
    \A i \in DOMAIN conns :
        /\ conns[i].results = DecodeAlone(new_codec, <<>>, conns[i].chunks, overflow_checks)
        /\ conns[i].yielded = PollAlone(FALSE, conns[i].handler, conns[i].polled)

\* C28 witness: the first connection decoded "0:" and "," into a Request
\* while the second had its gate halted by a Stop.
C28_Witness ==
    /\ DOMAIN conns = Conns
    /\ conns[1].chunks = <<<<ZERO, COLON>>, <<COMMA>>>>
    /\ conns[1].results[2] = RequestMsg(<<>>, <<>>)
    /\ conns[2].polled = <<Stop("p")>>
    /\ conns[2].stop
    /\ ~conns[1].stop

\* The bytes held in header_key and in the pairs of headers.
RECURSIVE HeldInHeaders(_)
HeldInHeaders(h) ==
    IF Len(h) = 0 THEN 0 ELSE Len(h[1][1]) + Len(h[1][2]) + HeldInHeaders(Tail(h))
HeldBytes == Len(header_key) + HeldInHeaders(headers)

\* C31: in every state after the size prefix was accepted, header_remaining
\* plus the header bytes consumed (keys and values with their NULs) equals
\* the declared length, header_remaining is at most the maximum header size,
\* and header_key and headers together hold at most the maximum header size.
C31_HeaderBudget ==
    decoder_state # "HeaderSize" =>
        /\ header_remaining + hdr_consumed = hdr_declared
        /\ header_remaining <= MAX_HEADER_BYTES
        /\ HeldBytes <= MAX_HEADER_BYTES

\* The step is one pass of the decoder: the entry of decode or one iteration
\* of the loop of consume_headers.
DecoderPass == call' # call

\* The state the pass started in and the state it left.
PassFrom == call.c.decoder_state
PassTo == call'.c.decoder_state

\* The pass pushed exactly one pair, made of the stored key and a new value,
\* at the end of headers.
PushedOnePair ==
    /\ PassFrom = "HeaderValue"
    /\ Len(call'.c.headers) = Len(call.c.headers) + 1
    /\ SubSeq(call'.c.headers, 1, Len(call.c.headers)) = call.c.headers
    /\ call'.c.headers[Len(call'.c.headers)][1] = call.c.header_key

\* C32: the decoder alternates HeaderKey then HeaderValue (a key pass leads
\* to HeaderValue or stays, a value pass leads to HeaderKey or
\* ContentSeparator or stays); headers changes only by one complete
\* (key, value) pair pushed by a value pass, or by being handed over with the
\* Request; header_key is empty in every state but HeaderValue;
\* ContentSeparator is entered only from HeaderValue with header_remaining 0
\* or from HeaderSize with a declared length of 0; after the Request is
\* emitted headers is empty.
C32_Pairing ==
    [][DecoderPass =>
        /\ PassFrom = "HeaderKey" => PassTo \in {"HeaderKey", "HeaderValue"}
        /\ PassFrom = "HeaderValue" =>
                PassTo \in {"HeaderValue", "HeaderKey", "ContentSeparator"}
        /\ \/ call'.c.headers = call.c.headers
           \/ PushedOnePair
           \/ call'.res.kind = "Request" /\ call'.c.headers = <<>>
        /\ PassTo # "HeaderValue" => call'.c.header_key = <<>>
        /\ (PassFrom # "ContentSeparator" /\ PassTo = "ContentSeparator") =>
                \/ PassFrom = "HeaderValue" /\ call'.c.header_remaining = 0
                \/ PassFrom = "HeaderSize" /\ call'.c.hdr_declared = 0
        /\ call'.res.kind = "Request" => call'.c.headers = <<>>
        /\ PassTo = "Content" => call'.c.headers = <<>>]_vars

\* C32 witness: one call stored a key, pushed its pair, entered
\* ContentSeparator from HeaderValue and emitted the Request with the pair.
C32_Witness ==
    /\ ~call.running
    /\ call.res.kind = "Request"
    /\ Len(call.res.headers) = 1
    /\ call.res.headers[1][1] # <<>>
    /\ call.c.headers = <<>>
    /\ call.c.header_key = <<>>
    /\ call.from = "ContentSeparator"
    /\ call.iterations = 3

\* The pass was an iteration of the loop that did not return.
WentRoundAgain == call.running /\ call'.running

\* C34 as stated: each iteration of the loop of consume_headers either
\* returns or removes at least one byte from the buffer, and a decode call
\* makes at most as many iterations as bytes were buffered when it started.
C34_Terminates_WithinBuffered ==
    [][DecoderPass =>
        /\ WentRoundAgain => Len(call'.buf) < Len(call.buf)
        /\ call'.iterations <= call'.buffered]_vars

\* C34 amended: each iteration either returns or removes at least one byte,
\* and a decode call makes at most one iteration more than bytes were
\* buffered when it started, the last one being the one that returns.
C34_Terminates ==
    [][DecoderPass =>
        /\ WentRoundAgain => Len(call'.buf) < Len(call.buf)
        /\ call'.iterations <= call'.buffered + 1
        /\ (call'.running => call'.iterations <= call'.buffered)]_vars

\* C34 witness: a call that started with two bytes buffered returned from
\* its third iteration, each of the first two having cut one byte.
C34_Witness ==
    /\ ~call.running
    /\ call.buffered = 2
    /\ call.iterations = 3
    /\ call.buf = <<>>

\* The ',' separator of the encoded request has been delivered: the size
\* prefix, the header block and one more byte.
SeparatorArrived ==
    /\ enc_result = "Ok"
    /\ Len(fed) >= EncodedPrefixLen + sum_header_size(request.headers) + 1

\* C33: when the bytes of an encoded request whose header block and strings
\* are within the maxima are delivered under any chunking, decode being
\* called after each chunk, the Request has been emitted by the end of the
\* call that follows the arrival of the ',' separator, whether or not any
\* body byte has arrived, and no call before that failed.
C33_RequestProgress ==
    (/\ enc_result = "Ok"
     /\ BlockWithinMax(request.headers)
     /\ StringsWithinMax(request.headers)) =>
        /\ ~errored /\ ~panicked
        /\ SeparatorArrived => nreq = 1
        /\ (SeparatorArrived /\ Len(fed) = EncodedPrefixLen
                                           + sum_header_size(request.headers) + 1) =>
                result.kind \in {"Request", "None"} /\ got_content = <<>>

\* C33 witness: the chunk that ended with the ',' of a two-header request
\* was decoded into the Request with an empty body while the body was still
\* on its way.
C33_Witness ==
    /\ SeparatorArrived
    /\ BlockWithinMax(request.headers) /\ StringsWithinMax(request.headers)
    /\ Len(request.headers) = 2
    /\ Len(wire) = Len(request.body) /\ Len(wire) > 0
    /\ deliveries > 1
    /\ result = RequestMsg(request.headers, <<>>)

\* What the gate returns for a passthrough result of the wrapped stream.
Corresponding(polled) ==
    IF polled.kind = "Continue" THEN Ready(polled.item) ELSE polled

\* C35: the stop flag is false at construction and is set only by a poll in
\* which the wrapped stream yields Stop; a poll in which it reports
\* not-ready, end-of-stream or a Continue item returns the corresponding
\* result and leaves the flag unchanged; each gate poll polls the wrapped
\* stream at most once.
C35_PassthroughKeepsLatch ==
    [][/\ gate_polls = 0 => ~gate_stop
       /\ GatePolled =>
            /\ Len(src_hist') <= Len(src_hist) + 1
            /\ SubSeq(src_hist', 1, Len(src_hist)) = src_hist
            /\ (gate_stop' /\ ~gate_stop) =>
                    SourcePolled /\ SourceReturned.kind = "Stop"
            /\ (SourcePolled /\ SourceReturned.kind \in {"NotReady", "End", "Continue"}) =>
                    /\ gate_result' = Corresponding(SourceReturned)
                    /\ gate_stop' = gate_stop]_vars

\* C35 witness: the wrapped stream reported not-ready, a Continue item and
\* end-of-stream without the flag being set, and then a Stop that set it.
C35_Witness ==
    /\ Len(src_hist) = 4
    /\ src_hist[1] = NotReady
    /\ src_hist[2] = Continue("p")
    /\ src_hist[3] = StreamEnd
    /\ src_hist[4] = Stop("q")
    /\ gate_out = <<"p", "q">>
    /\ gate_stop

\* C36: every error the server decoder returns has the kind InvalidData,
\* every error the client encoder returns has the kind InvalidInput, and
\* neither returns the kind of the other.
C36_ErrorKinds ==
    /\ result.kind = "Err" => result.errkind = "InvalidData"
    /\ result.kind # "Err" => result.errkind = "none"
    /\ enc_result \in {"none", "Ok", "InvalidInput"}
    /\ \A i \in 1..Len(enc_log) : enc_log[i].res \in {"Ok", "InvalidInput"}

\* C36 witness: the encoder refused a request and the decoder refused a
\* header key that is not UTF-8.
C36_Witness ==
    /\ enc_result = "InvalidInput"
    /\ result.kind = "Err"
    /\ result.err = "Failed to parse header key"
    /\ result.errkind = "InvalidData"

\* The step is a decode call of the client codec, and what it returned.
ClientDecoded == Len(client_rx.returned') = Len(client_rx.returned) + 1
ClientReturned == client_rx.returned'[Len(client_rx.returned')]

\* C37: each client decode call returns all the bytes in the buffer
\* unchanged and leaves the buffer empty; on a buffer that is already empty
\* it returns "no message yet" and not an item.
C37_ClientPassthrough ==
    [][ClientDecoded =>
        /\ client_rx.buf' = <<>>
        /\ client_rx.buf # <<>> =>
                ClientReturned.kind = "Item" /\ ClientReturned.bytes = client_rx.buf
        /\ client_rx.buf = <<>> => ClientReturned.kind = "None"]_vars

\* The body bytes the handler was given in its first k messages.
RECURSIVE GivenBody(_)
GivenBody(k) ==
    IF k = 0 THEN <<>> ELSE GivenBody(k - 1) \o sample_handler.given[k].body

\* The headers of the Request the handler was given.
GivenHeaders == sample_handler.given[1].headers

\* The Request carries a Content-Length header of value n, and its first
\* Content-Length header has the value n.
CarriesContentLength(n) ==
    \E i \in 1..Len(GivenHeaders) :
        GivenHeaders[i][1] = CONTENT_LENGTH /\ parse_usize(GivenHeaders[i][2]) = n
FirstContentLength(n) ==
    \E i \in 1..Len(GivenHeaders) :
        /\ GivenHeaders[i][1] = CONTENT_LENGTH /\ parse_usize(GivenHeaders[i][2]) = n
        /\ \A j \in 1..(i - 1) : GivenHeaders[j][1] # CONTENT_LENGTH

\* The stop rule for a declared length n: Stop at the message that brings the
\* accumulated body to n bytes or more, Continue with an empty payload before
\* it, and while waiting body_remaining is n less the accumulated length.
StopRule(n) ==
    /\ \A k \in 1..Len(sample_handler.returned) :
        IF Len(GivenBody(k)) >= n
        THEN sample_handler.returned[k].kind = "Stop"
        ELSE sample_handler.returned[k] = Continue(EmptyPayload)
    /\ sample_handler.returned[Len(sample_handler.returned)].kind = "Continue" =>
        /\ sample_handler.h.body_remaining = n - Len(GivenBody(Len(sample_handler.given)))
        /\ sample_handler.h.body_remaining > 0

\* A Request without a Content-Length header is answered at once with Stop
\* and the page made of the bytes buffered so far.
StopsWithoutLength ==
    (\A i \in 1..Len(GivenHeaders) : GivenHeaders[i][1] # CONTENT_LENGTH) =>
        sample_handler.returned[1] =
            Stop(build_response(GivenHeaders, sample_handler.given[1].body))

\* The lengths a Content-Length header of the requests declares.
DeclaredLengths == {parse_usize(p[2]) : p \in HandlerPairs} \ {-1}

\* C38 as stated: for a Request carrying a Content-Length header of value n
\* the handler returns Stop on the first message at which the accumulated
\* body length is at least n and Continue with an empty payload before; while
\* it waits body_remaining is n minus the accumulated length and does not
\* underflow; without a Content-Length header it returns Stop at once with
\* the bytes buffered so far.
C38_StopRule_AnyContentLength ==
    sample_handler.given # <<>> =>
        /\ \A n \in DeclaredLengths : CarriesContentLength(n) => StopRule(n)
        /\ StopsWithoutLength
        /\ sample_handler.h.body_remaining >= 0

\* C38 amended: the same, n being the value of the first Content-Length
\* header of the Request.
C38_StopRule ==
    sample_handler.given # <<>> =>
        /\ \A n \in DeclaredLengths : FirstContentLength(n) => StopRule(n)
        /\ StopsWithoutLength
        /\ sample_handler.h.body_remaining >= 0

\* C38 witness: a Request declaring three bytes came with one, a fragment
\* brought the second and another the third: Continue twice, then Stop.
C38_Witness ==
    /\ Len(sample_handler.given) = 3
    /\ FirstContentLength(3)
    /\ Len(GivenBody(1)) = 1 /\ Len(GivenBody(2)) = 2 /\ Len(GivenBody(3)) = 3
    /\ sample_handler.returned[1] = Continue(EmptyPayload)
    /\ sample_handler.returned[2] = Continue(EmptyPayload)
    /\ sample_handler.returned[3] = Stop(build_response(GivenHeaders, GivenBody(3)))

\* The diagnostic responses among the pages sent to the peer.
Diagnostics(out) == {i \in 1..Len(out) : out[i].status \in {"400", "500"}}

\* The step is a poll of the session made after an error was reported.
PolledAfterError == session.diagnosed /\ gate_polls' = gate_polls + 1

\* C39: when the decoder reports a protocol violation or the handler
\* returns an error, exactly one diagnostic response is sent to the peer,
\* after which the output stream ends and decode is not called again on the
\* connection.
C39_OneDiagnostic ==
    [][/\ session'.diagnosed => Cardinality(Diagnostics(gate_out')) = 1
       /\ PolledAfterError =>
            /\ session'.ended
            /\ session'.decodes = session.decodes
            /\ gate_out' = gate_out]_vars

\* The step is an encode call of the combined codec, the kind of message it
\* was given and what it returned.
LibEncoded == Len(enc_log') = Len(enc_log) + 1
LibGiven == enc_log'[Len(enc_log')].kind
LibReturned == enc_log'[Len(enc_log')].res

\* A Headers message has been written by an earlier call.
HeadersWritten ==
    \E i \in 1..Len(enc_log) : enc_log[i].kind = "Headers" /\ enc_log[i].res = "Ok"

\* C40: the encoder state of the combined codec goes from HeaderSize to
\* Content only in a call that encodes a Headers message successfully; a
\* Headers call rejected with InvalidInput leaves the encoder state and the
\* output buffer unchanged, and a Headers message with valid pairs is
\* accepted as long as none has been written; once one has been written,
\* every further Headers message is rejected without writing.
C40_EncoderState ==
    [][LibEncoded =>
        /\ (encoder_state = "HeaderSize" /\ encoder_state' = "Content") =>
                LibGiven = "Headers" /\ LibReturned = "Ok"
        /\ LibReturned = "InvalidInput" =>
                encoder_state' = encoder_state /\ wire' = wire
        /\ (LibGiven = "Headers" /\ ~HeadersWritten
                /\ WellFormedHeaders(request'.headers)) => LibReturned = "Ok"
        /\ (LibGiven = "Headers" /\ HeadersWritten) =>
                LibReturned = "InvalidInput" /\ wire' = wire]_vars

====
